---- MODULE Spec2Model ----
(***************************************************************************)
(* A model of python_omgidl: the CDR reader (omgidl_serialization/         *)
(* message_reader.py with headers.py), the callbacks of the IDL            *)
(* transformer and its resolver (omgidl_parser/parse.py), and the schema   *)
(* view parse_ros2idl (ros2idl_parser/parse.py).                           *)
(*                                                                         *)
(* Buffers are sequences of bytes (0..255); Python offset o is the TLA+    *)
(* index o + 1.  A decoded string is the sequence of its character codes.  *)
(* A 64-bit value is the pair <<high 32 bits, low 32 bits>>.  Python's     *)
(* None for an optional integer is modelled by -1.                         *)
(* float32/float64 are not modelled; strings hold ASCII characters only.   *)
(***************************************************************************)
EXTENDS Integers, Sequences, FiniteSets, TLC

(***************************************************************************)
(* Results of the operations that can raise.                               *)
(***************************************************************************)
Raise(e) == [ok |-> FALSE, err |-> e, val |-> 0, off |-> 0, log |-> << >>]

Ok(v, o, l) == [ok |-> TRUE, err |-> "", val |-> v, off |-> o, log |-> l]

EmptyMap == [k \in {} |-> 0]

Put(m, k, v) == (k :> v) @@ m

Min(a, b) == IF a < b THEN a ELSE b

RECURSIVE Reverse(_)
Reverse(s) ==
    IF Len(s) = 0 THEN << >> ELSE Append(Reverse(Tail(s)), Head(s))

(* The unsigned integer whose bytes, most significant first, are b. *)
RECURSIVE UIntBE(_)
UIntBE(b) ==
    IF Len(b) = 0 THEN 0
    ELSE UIntBE(SubSeq(b, 1, Len(b) - 1)) * 256 + b[Len(b)]

(* Two's complement: the signed integer whose bytes, most significant first, are b. *)
SIntBE(b) ==
    IF b[1] >= 128
    THEN 0 - UIntBE([i \in 1..Len(b) |-> 255 - b[i]]) - 1
    ELSE UIntBE(b)

(* view[start:stop] of Python, for 0 <= start and 0 <= stop: no error past the end. *)
Slice(view, start, stop) ==
    LET s == Min(start, Len(view))
        e == Min(stop, Len(view))
    IN  IF e <= s THEN << >> ELSE SubSeq(view, s + 1, e)

(***************************************************************************)
(* message_writer.py (not in the source tree): the tables the reader       *)
(* imports from it, from sections 4.6 and 6 of the specification.          *)
(***************************************************************************)
CDR_BE == 0
CDR_LE == 1
PL_CDR_BE == 2
PL_CDR_LE == 3
RTPS_CDR2_BE == 6
RTPS_CDR2_LE == 7
CDR2_BE == 16
CDR2_LE == 17
PL_CDR2_BE == 18
PL_CDR2_LE == 19
DELIMITED_CDR2_BE == 20
DELIMITED_CDR2_LE == 21

EncapsulationKind ==
    {CDR_BE, CDR_LE, PL_CDR_BE, PL_CDR_LE, RTPS_CDR2_BE, RTPS_CDR2_LE,
     CDR2_BE, CDR2_LE, PL_CDR2_BE, PL_CDR2_LE, DELIMITED_CDR2_BE, DELIMITED_CDR2_LE}

LITTLE_ENDIAN_KINDS ==
    {CDR_LE, PL_CDR_LE, RTPS_CDR2_LE, CDR2_LE, PL_CDR2_LE, DELIMITED_CDR2_LE}

PRIMITIVE_SIZES ==
    [t \in {"bool", "int8", "uint8", "int16", "uint16", "int32", "uint32",
            "int64", "uint64"} |->
        CASE t \in {"bool", "int8", "uint8"} -> 1
          [] t \in {"int16", "uint16"} -> 2
          [] t \in {"int32", "uint32"} -> 4
          [] OTHER -> 8]

SIGNED_TYPES == {"int8", "int16", "int32", "int64"}

_primitive_size(t) == PRIMITIVE_SIZES[t]

(***************************************************************************)
(* headers.py                                                              *)
(***************************************************************************)
EXTENDED_PID == 16129
SENTINEL_PID == 16130

_padding_no_origin(offset, byte_width) ==
    LET alignment == offset % byte_width
    IN  IF alignment = 0 THEN 0 ELSE byte_width - alignment

_padding(offset, byte_width) ==
    LET alignment == (offset - 4) % byte_width
    IN  IF alignment = 0 THEN 0 ELSE byte_width - alignment

(* struct.unpack_from(fmt_prefix + code, view, offset): the size bytes at offset,
   most significant first; struct.error when they are not all in the buffer. *)
unpack_from(fmt_prefix, size, view, offset) ==
    IF offset + size > Len(view)
    THEN Raise("struct.error")
    ELSE LET raw == SubSeq(view, offset + 1, offset + size)
         IN  Ok(IF fmt_prefix = "<" THEN Reverse(raw) ELSE raw, offset + size, << >>)

(* unpack_from with an unsigned code ("H", "I"). *)
unpack_unsigned(fmt_prefix, size, view, offset) ==
    LET unsigned(r) == IF r.ok THEN Ok(UIntBE(r.val), r.off, << >>) ELSE r
    IN  unsigned(unpack_from(fmt_prefix, size, view, offset))

(* unpack_from with PRIMITIVE_FORMATS[t], and bool(val) for t = "bool". *)
unpack_primitive(fmt_prefix, t, view, offset) ==
    LET value(b) ==
            CASE t = "bool" -> (UIntBE(b) # 0)
              [] t = "int64" -> <<SIntBE(SubSeq(b, 1, 4)), UIntBE(SubSeq(b, 5, 8))>>
              [] t = "uint64" -> <<UIntBE(SubSeq(b, 1, 4)), UIntBE(SubSeq(b, 5, 8))>>
              [] t \in SIGNED_TYPES -> SIntBE(b)
              [] OTHER -> UIntBE(b)
        typed(r) == IF r.ok THEN Ok(value(r.val), r.off, << >>) ELSE r
    IN  typed(unpack_from(fmt_prefix, _primitive_size(t), view, offset))

read_delimiter_header(view, offset, fmt_prefix) ==
    unpack_unsigned(fmt_prefix, 4, view, offset)

(* The tuple read_member_header returns: (member_id, obj_size, must_understand,
   offset); member_id is None (-1) for the sentinel. *)
read_member_header(view, offset, fmt_prefix) ==
    LET extended(must_understand, o2, member_id, obj_size) ==
            IF ~member_id.ok THEN member_id
            ELSE IF ~obj_size.ok THEN obj_size
            ELSE Ok(<<member_id.val, obj_size.val, must_understand, o2 + 10>>,
                    o2 + 10, << >>)
        short(pid, must_understand, o2, obj_size) ==
            IF ~obj_size.ok THEN obj_size
            ELSE Ok(<<pid, obj_size.val, must_understand, o2 + 2>>, o2 + 2, << >>)
        member(o1, pid, must_understand) ==
            IF pid = SENTINEL_PID THEN Ok(<<-1, 0, TRUE, o1 + 4>>, o1 + 4, << >>)
            ELSE IF pid = EXTENDED_PID
            THEN extended(must_understand, o1 + 2,
                          unpack_unsigned(fmt_prefix, 4, view, o1 + 4),
                          unpack_unsigned(fmt_prefix, 4, view, o1 + 8))
            ELSE short(pid, must_understand, o1 + 2,
                       unpack_unsigned(fmt_prefix, 2, view, o1 + 2))
        header(o1, id_header) ==
            IF ~id_header.ok THEN id_header
            ELSE member(o1, id_header.val % 16384, ((id_header.val \div 16384) % 2) # 0)
        aligned(o1) == header(o1, unpack_unsigned(fmt_prefix, 2, view, o1))
    IN  aligned(offset + _padding(offset, 4))

(***************************************************************************)
(* deserialization_info_cache.py (not in the source tree), from section    *)
(* 4.5 of the specification.  A field plan is a record                     *)
(*   [name, id, type, is_array, array_lengths, is_sequence,                *)
(*    string_upper_bound, type_info]                                       *)
(* where type_info names the nested plan ("" for None).  A struct plan is  *)
(*   [kind |-> "struct", fields, uses_delimiter_header, uses_member_header]*)
(* and a union plan                                                        *)
(*   [kind |-> "union", definition |-> [switch_type, cases, default],      *)
(*    uses_delimiter_header, uses_member_header]                           *)
(* with cases a sequence of [value, field] and default.name = "" for None. *)
(***************************************************************************)
UNION_DISCRIMINATOR_PROPERTY_KEY == "$discriminator"

FieldInfo(name, id, type) ==
    [name |-> name, id |-> id, type |-> type, is_array |-> FALSE,
     array_lengths |-> << >>, is_sequence |-> FALSE, string_upper_bound |-> -1,
     type_info |-> ""]

NoField == FieldInfo("", 0, "")

build_field_info(field, id) == [field EXCEPT !.id = id]

RECURSIVE get_complex_default(_, _)
get_complex_default(cache, info) ==
    IF info.kind = "union" THEN EmptyMap
    ELSE [n \in {info.fields[i].name : i \in 1..Len(info.fields)} |->
            LET f == info.fields[CHOOSE i \in 1..Len(info.fields) : info.fields[i].name = n]
            IN  IF f.is_array \/ f.is_sequence THEN << >>
                ELSE IF f.type \in {"string", "wstring"} THEN << >>
                ELSE IF f.type = "bool" THEN FALSE
                ELSE IF f.type \in {"int64", "uint64"} THEN <<0, 0>>
                ELSE IF f.type \in DOMAIN PRIMITIVE_SIZES THEN 0
                ELSE get_complex_default(cache, cache[f.type_info])]

(* message_writer._union_case_field (not in the source tree), section 4.6: the
   field of the case matching the discriminator, else the default, else None. *)
_union_case_field(definition, disc) ==
    LET hit == {i \in 1..Len(definition.cases) : definition.cases[i].value = disc}
    IN  IF hit # {}
        THEN definition.cases[CHOOSE i \in hit : \A j \in hit : i <= j].field
        ELSE definition.default

(***************************************************************************)
(* message_reader.py                                                       *)
(***************************************************************************)

(* One decoded primitive: where it was read, its width, the padding skipped. *)
Read(at, width, from) == [off |-> at, width |-> width, pad |-> at - from]

(* bytes.decode("utf-8") on ASCII text, bytes.decode("utf-16-le"). *)
decode(t, data) ==
    IF t = "string"
    THEN IF \E i \in 1..Len(data) : data[i] >= 128
         THEN Raise("UnicodeDecodeError")
         ELSE Ok(data, 0, << >>)
    ELSE IF Len(data) % 2 # 0
         THEN Raise("UnicodeDecodeError")
         ELSE Ok([i \in 1..(Len(data) \div 2) |-> data[2 * i - 1] + 256 * data[2 * i]],
                 0, << >>)

(* The text shared by the three places a string is decoded (lines 164-170,
   121-127, 215-221): padding, length prefix, slice, decode. *)
(* The text shared by the three places a string is decoded (lines 164-170,
   121-127, 215-221): padding, length prefix, slice, decode. *)
read_string_data(t, view, offset, fmt_prefix, log) ==
    LET term == IF t = "string" THEN 1 ELSE 2
        decoded(o1, length, s) ==
            IF ~s.ok THEN s
            ELSE Ok(s.val, o1 + 4 + length, Append(log, Read(o1, 4, offset)))
        sliced(o1, length) ==
            IF ~length.ok THEN length
            ELSE decoded(o1, length.val,
                         decode(t, Slice(view, o1 + 4, o1 + 4 + length.val - term)))
        aligned(o1) == sliced(o1, unpack_unsigned(fmt_prefix, 4, view, o1))
    IN  aligned(offset + _padding(offset, 4))

exceeds_bound(field, s) ==
    field.string_upper_bound >= 0 /\ Len(s) > field.string_upper_bound

bound_checked(field, r) ==
    IF r.ok /\ exceeds_bound(field, r.val) THEN Raise("ValueError") ELSE r

(* _read_field, lines 163-179: a scalar string. *)
read_string_field_unchecked(field, view, offset, fmt_prefix, log) ==
    read_string_data(field.type, view, offset, fmt_prefix, log)

read_string_field(field, view, offset, fmt_prefix, log) ==
    bound_checked(field, read_string_data(field.type, view, offset, fmt_prefix, log))

(* _read_field, lines 120-136: one element of a sequence of strings. *)
read_string_sequence_item_unchecked(field, view, offset, fmt_prefix, log) ==
    read_string_data(field.type, view, offset, fmt_prefix, log)

read_string_sequence_item(field, view, offset, fmt_prefix, log) ==
    bound_checked(field, read_string_data(field.type, view, offset, fmt_prefix, log))

(* _read_array, lines 214-230: one element of an array of strings. *)
read_string_array_item_unchecked(field, view, offset, fmt_prefix, log) ==
    read_string_data(field.type, view, offset, fmt_prefix, log)

read_string_array_item(field, view, offset, fmt_prefix, log) ==
    bound_checked(field, read_string_data(field.type, view, offset, fmt_prefix, log))

(* The block read at the cursor, without the padding to the element size. *)
read_primitive_block_unpadded(t, view, offset, length, fmt_prefix, log) ==
    LET size == _primitive_size(t)
        frombytes(data) ==
            IF Len(data) % size # 0 THEN Raise("ValueError")
            ELSE Ok([i \in 1..(Len(data) \div size) |->
                        unpack_primitive(fmt_prefix, t, data, (i - 1) * size).val],
                    offset + size * length,
                    IF Len(data) >= size THEN Append(log, Read(offset, size, offset)) ELSE log)
    IN  frombytes(Slice(view, offset, offset + size * length))

(* Lines 139-151 and 234-246: length primitives through array.frombytes on a
   slice of the view, byte-swapped to the message's byte order. *)
read_primitive_block(t, view, offset, length, fmt_prefix, log) ==
    LET size == _primitive_size(t)
        frombytes(o1, data) ==
            IF Len(data) % size # 0 THEN Raise("ValueError")
            ELSE Ok([i \in 1..(Len(data) \div size) |->
                        unpack_primitive(fmt_prefix, t, data, (i - 1) * size).val],
                    o1 + size * length,
                    IF Len(data) >= size THEN Append(log, Read(o1, size, offset)) ELSE log)
        aligned(o1) == frombytes(o1, Slice(view, o1, o1 + size * length))
    IN  aligned(offset + _padding(offset, size))

(***************************************************************************)
(* The methods of MessageReader call one another recursively.  Every such  *)
(* call goes through Decode, which runs the method a task names: task.op   *)
(* is the method, the other fields its arguments besides the view, the     *)
(* offset, the byte order and the log of reads.                            *)
(***************************************************************************)
RECURSIVE Decode(_, _, _, _, _, _)

Frame(msg, off, end, log, done, i) ==
    [ok |-> TRUE, err |-> "", msg |-> msg, off |-> off, end |-> end, log |-> log,
     done |-> done, i |-> i]

NoFrame == Frame(EmptyMap, 0, -1, << >>, FALSE, 0)

Task(op) ==
    [op |-> op, field |-> NoField, info |-> NoField, lengths |-> << >>, length |-> 0,
     mode |-> "", st |-> NoFrame]

call_read_struct(cache, info, view, offset, fmt_prefix, log) ==
    Decode(cache, [Task("_read_struct") EXCEPT !.info = info], view, offset, fmt_prefix, log)

call_read_union(cache, info, view, offset, fmt_prefix, log) ==
    Decode(cache, [Task("_read_union") EXCEPT !.info = info], view, offset, fmt_prefix, log)

call_read_field(cache, field, view, offset, fmt_prefix, log) ==
    Decode(cache, [Task("_read_field") EXCEPT !.field = field], view, offset, fmt_prefix,
           log)

call_read_array(cache, field, view, offset, lengths, fmt_prefix, log) ==
    Decode(cache, [Task("_read_array") EXCEPT !.field = field, !.lengths = lengths],
           view, offset, fmt_prefix, log)

call_read_items(cache, field, view, offset, fmt_prefix, log, length, mode, lengths) ==
    Decode(cache, [Task("read_items") EXCEPT !.field = field, !.length = length,
                                             !.mode = mode, !.lengths = lengths],
           view, offset, fmt_prefix, log)

call_struct_loop(cache, info, view, st, fmt_prefix) ==
    Decode(cache, [Task("struct_loop") EXCEPT !.info = info, !.st = st], view, 0,
           fmt_prefix, << >>)

call_union_loop(cache, info, view, st, fmt_prefix) ==
    Decode(cache, [Task("union_loop") EXCEPT !.info = info, !.st = st], view, 0,
           fmt_prefix, << >>)


(* "for _ in range(length)" with an accumulator: mode says what one element is
   (for mode "nested", an array of the dimensions lengths). *)
read_items(cache, field, view, offset, fmt_prefix, log, length, mode, lengths) ==
    LET appended(one, rest) ==
            IF ~rest.ok THEN rest
            ELSE Ok(<<one.val>> \o rest.val, rest.off, rest.log)
        continued(one) ==
            IF ~one.ok THEN one
            ELSE appended(one, call_read_items(cache, field, view, one.off, fmt_prefix,
                                               one.log, length - 1, mode, lengths))
    IN  IF length = 0 THEN Ok(<< >>, offset, log)
        ELSE continued(
                 CASE mode = "sequence_string" ->
                          read_string_sequence_item(field, view, offset, fmt_prefix, log)
                   [] mode = "array_string" ->
                          read_string_array_item(field, view, offset, fmt_prefix, log)
                   [] mode = "complex" ->
                          IF cache[field.type_info].kind = "struct"
                          THEN call_read_struct(cache, cache[field.type_info], view,
                                                offset, fmt_prefix, log)
                          ELSE call_read_union(cache, cache[field.type_info], view,
                                               offset, fmt_prefix, log)
                   [] OTHER ->
                          call_read_array(cache, field, view, offset, lengths, fmt_prefix,
                                          log))

_read_array(cache, field, view, offset, lengths, fmt_prefix, log) ==
    IF Len(lengths) > 1
    THEN call_read_items(cache, field, view, offset, fmt_prefix, log, lengths[1],
                         "nested", Tail(lengths))
    ELSE IF field.type \in {"string", "wstring"}
    THEN call_read_items(cache, field, view, offset, fmt_prefix, log, lengths[1],
                         "array_string", << >>)
    ELSE IF field.type \in DOMAIN PRIMITIVE_SIZES
    THEN read_primitive_block(field.type, view, offset, lengths[1], fmt_prefix, log)
    ELSE IF field.type_info = "" THEN Raise("ValueError")
    ELSE call_read_items(cache, field, view, offset, fmt_prefix, log, lengths[1],
                         "complex", << >>)

_read_field(cache, field, view, offset, fmt_prefix, log) ==
    LET t == field.type
        elements(o1, length, log1) ==
            IF ~length.ok THEN length
            ELSE IF t \in {"string", "wstring"}
            THEN call_read_items(cache, field, view, o1 + 4, fmt_prefix, log1, length.val,
                                 "sequence_string", << >>)
            ELSE IF t \in DOMAIN PRIMITIVE_SIZES
            THEN read_primitive_block(t, view, o1 + 4, length.val, fmt_prefix, log1)
            ELSE IF field.type_info = "" THEN Raise("ValueError")
            ELSE call_read_items(cache, field, view, o1 + 4, fmt_prefix, log1, length.val,
                                 "complex", << >>)
        sequence(o1) ==
            elements(o1, unpack_unsigned(fmt_prefix, 4, view, o1),
                     Append(log, Read(o1, 4, offset)))
        unpacked(o2, size, val) ==
            IF val.ok THEN Ok(val.val, val.off, Append(log, Read(o2, size, offset)))
            ELSE val
        primitive(o2, size) == unpacked(o2, size, unpack_primitive(fmt_prefix, t, view, o2))
    IN  IF field.is_array
        THEN call_read_array(cache, field, view, offset, field.array_lengths, fmt_prefix, log)
        ELSE IF field.is_sequence
        THEN sequence(offset + _padding(offset, 4))
        ELSE IF t \in {"string", "wstring"}
        THEN read_string_field(field, view, offset, fmt_prefix, log)
        ELSE IF t \in DOMAIN PRIMITIVE_SIZES
        THEN primitive(offset + _padding(offset, _primitive_size(t)), _primitive_size(t))
        ELSE IF field.type_info = "" THEN Raise("ValueError")
        ELSE IF cache[field.type_info].kind = "struct"
        THEN call_read_struct(cache, cache[field.type_info], view, offset, fmt_prefix, log)
        ELSE call_read_union(cache, cache[field.type_info], view, offset, fmt_prefix, log)

(***************************************************************************)
(* _read_struct, in the pieces the loops are made of.  The loop state is   *)
(* [ok, err, msg, off, end, log, done, i]: end is None (-1) without a      *)
(* delimiter header, i the index of the next field of the plain loop.      *)
(***************************************************************************)
Fail(r) ==
    [ok |-> FALSE, err |-> r.err, msg |-> EmptyMap, off |-> 0, end |-> -1,
     log |-> << >>, done |-> TRUE, i |-> 0]

(* Lines 75-83 (and 262-269 of _read_union): the optional delimiter header. *)
read_delimiter(info, view, offset, fmt_prefix, log, msg) ==
    LET delimited(o1, d) ==
            IF d.ok
            THEN Frame(msg, d.off, d.off + d.val, Append(log, Read(o1, 4, offset)),
                       FALSE, 1)
            ELSE Fail(d)
        aligned(o1) == delimited(o1, read_delimiter_header(view, o1, fmt_prefix))
    IN  IF info.uses_delimiter_header
        THEN aligned(offset + _padding(offset, 4))
        ELSE Frame(msg, offset, -1, log, FALSE, 1)

struct_enter(cache, info, view, offset, fmt_prefix, log) ==
    read_delimiter(info, view, offset, fmt_prefix, log, get_complex_default(cache, info))

(* "field_id, size, new_offset = read_member_header(...)": the unpacking of the
   returned tuple into three names raises ValueError unless it has three items. *)
unpack_three(hdr) ==
    IF ~hdr.ok THEN hdr
    ELSE IF Len(hdr.val) # 3 THEN Raise("ValueError")
    ELSE hdr

(* The first field of the plan with the id, None (NoField) without one. *)
field_by_id(info, field_id) ==
    LET known == {i \in 1..Len(info.fields) : info.fields[i].id = field_id}
    IN  IF known = {} THEN NoField
        ELSE info.fields[CHOOSE i \in known : \A j \in known : i <= j]

(* A value read into the message under the name of its field. *)
stored(st, name, r) ==
    IF ~r.ok THEN Fail(r)
    ELSE [st EXCEPT !.off = r.off, !.log = r.log, !.msg = Put(st.msg, name, r.val)]

(* Lines 86-96: one iteration of the member loop. *)
struct_member(cache, info, view, st, fmt_prefix) ==
    LET member(field_id, size, new_offset, field) ==
            IF field_id = 0 THEN [st EXCEPT !.off = new_offset, !.done = TRUE]
            ELSE IF field.name = "" THEN [st EXCEPT !.off = new_offset + size]
            ELSE stored(st, field.name,
                        call_read_field(cache, field, view, new_offset, fmt_prefix, st.log))
        unpacked(hdr) ==
            IF ~hdr.ok THEN Fail(hdr)
            ELSE member(hdr.val[1], hdr.val[2], hdr.val[3], field_by_id(info, hdr.val[1]))
    IN  unpacked(unpack_three(read_member_header(view, st.off, fmt_prefix)))

(* Lines 100-102: one iteration of the plain loop. *)
struct_field(cache, info, view, st, fmt_prefix) ==
    LET next(s) == IF s.ok THEN [s EXCEPT !.i = st.i + 1] ELSE s
    IN  next(stored(st, info.fields[st.i].name,
                    call_read_field(cache, info.fields[st.i], view, st.off, fmt_prefix,
                                    st.log)))

struct_step(cache, info, view, st, fmt_prefix) ==
    IF info.uses_member_header
    THEN struct_member(cache, info, view, st, fmt_prefix)
    ELSE struct_field(cache, info, view, st, fmt_prefix)

struct_finished(info, st) ==
    ~st.ok \/ st.done \/ (~info.uses_member_header /\ st.i > Len(info.fields))

(* A delimited struct left at its declared end wherever its fields ended. *)
struct_leave_at_end(info, st) ==
    IF ~st.ok THEN Raise(st.err)
    ELSE Ok(st.msg, IF st.end # -1 THEN st.end ELSE st.off, st.log)

(* Lines 97-99 and 103-105: the cursor the aggregate returns. *)
struct_leave(info, st) ==
    IF ~st.ok THEN Raise(st.err)
    ELSE IF info.uses_member_header
    THEN Ok(st.msg, IF st.end # -1 THEN st.end ELSE st.off, st.log)
    ELSE Ok(st.msg, IF st.end # -1 /\ st.off < st.end THEN st.end ELSE st.off, st.log)

struct_loop(cache, info, view, st, fmt_prefix) ==
    IF struct_finished(info, st) THEN st
    ELSE call_struct_loop(cache, info, view, struct_step(cache, info, view, st, fmt_prefix),
                          fmt_prefix)

_read_struct(cache, info, view, offset, fmt_prefix, log) ==
    struct_leave(info,
        call_struct_loop(cache, info, view,
                         struct_enter(cache, info, view, offset, fmt_prefix, log),
                         fmt_prefix))

(***************************************************************************)
(* _read_union                                                             *)
(***************************************************************************)
HasKey(msg, k) == k \in DOMAIN msg

disc_info(info, id) ==
    build_field_info(FieldInfo(UNION_DISCRIMINATOR_PROPERTY_KEY, 0,
                               info.definition.switch_type), id)

(* Lines 273-297: one iteration of the member loop of a union. *)
union_member(cache, info, view, st, fmt_prefix) ==
    LET case(field_id, size, new_offset, case_field) ==
            IF case_field.name = "" THEN [st EXCEPT !.off = new_offset + size]
            ELSE stored(st, case_field.name,
                        call_read_field(cache, build_field_info(case_field, field_id),
                                        view, new_offset, fmt_prefix, st.log))
        member(field_id, size, new_offset) ==
            IF field_id = 0 THEN [st EXCEPT !.off = new_offset, !.done = TRUE]
            ELSE IF field_id = 1
            THEN stored(st, UNION_DISCRIMINATOR_PROPERTY_KEY,
                        call_read_field(cache, disc_info(info, 1), view, new_offset,
                                        fmt_prefix, st.log))
            ELSE IF ~HasKey(st.msg, UNION_DISCRIMINATOR_PROPERTY_KEY)
            THEN [st EXCEPT !.off = new_offset + size]
            ELSE case(field_id, size, new_offset,
                      _union_case_field(info.definition,
                                        st.msg[UNION_DISCRIMINATOR_PROPERTY_KEY]))
        unpacked(hdr) ==
            IF ~hdr.ok THEN Fail(hdr)
            ELSE member(hdr.val[1], hdr.val[2], hdr.val[3])
    IN  unpacked(unpack_three(read_member_header(view, st.off, fmt_prefix)))

union_loop(cache, info, view, st, fmt_prefix) ==
    IF ~st.ok \/ st.done THEN st
    ELSE call_union_loop(cache, info, view, union_member(cache, info, view, st, fmt_prefix),
                         fmt_prefix)

(* The message of a plain union: the discriminator and the field of its case. *)
union_msg_all_cases(info, disc, case_field, value) ==
    [n \in {info.definition.cases[i].field.name : i \in 1..Len(info.definition.cases)}
           \cup {case_field.name} |-> value]
    @@ (UNION_DISCRIMINATOR_PROPERTY_KEY :> disc)

union_msg(info, disc, case_field, value) ==
    Put((UNION_DISCRIMINATOR_PROPERTY_KEY :> disc), case_field.name, value)

(* Lines 301-317: the discriminator, then the field of its case. *)
union_plain(cache, info, view, st, fmt_prefix) ==
    LET value(d, case_field, r) ==
            IF ~r.ok THEN r
            ELSE Ok(union_msg(info, d.val, case_field, r.val),
                    IF st.end # -1 /\ r.off < st.end THEN st.end ELSE r.off, r.log)
        case(d, case_field) ==
            IF case_field.name = ""
            THEN Ok((UNION_DISCRIMINATOR_PROPERTY_KEY :> d.val),
                    IF st.end # -1 THEN st.end ELSE d.off, d.log)
            ELSE value(d, case_field,
                       call_read_field(cache, build_field_info(case_field, 0), view, d.off,
                                       fmt_prefix, d.log))
        discriminated(d) ==
            IF ~d.ok THEN d
            ELSE case(d, _union_case_field(info.definition, d.val))
    IN  discriminated(call_read_field(cache, disc_info(info, 0), view, st.off, fmt_prefix,
                                      st.log))

_read_union(cache, info, view, offset, fmt_prefix, log) ==
    LET looped(fin) ==
            IF ~fin.ok THEN Raise(fin.err)
            ELSE Ok(fin.msg, IF fin.end # -1 THEN fin.end ELSE fin.off, fin.log)
        framed_union(st) ==
            IF ~st.ok THEN Raise(st.err)
            ELSE IF info.uses_member_header
            THEN looped(call_union_loop(cache, info, view, st, fmt_prefix))
            ELSE union_plain(cache, info, view, st, fmt_prefix)
    IN  framed_union(read_delimiter(info, view, offset, fmt_prefix, log, EmptyMap))

(***************************************************************************)
Decode(cache, task, view, offset, fmt_prefix, log) ==
    CASE task.op = "_read_struct" ->
             _read_struct(cache, task.info, view, offset, fmt_prefix, log)
      [] task.op = "_read_union" ->
             _read_union(cache, task.info, view, offset, fmt_prefix, log)
      [] task.op = "_read_field" ->
             _read_field(cache, task.field, view, offset, fmt_prefix, log)
      [] task.op = "_read_array" ->
             _read_array(cache, task.field, view, offset, task.lengths, fmt_prefix, log)
      [] task.op = "read_items" ->
             read_items(cache, task.field, view, offset, fmt_prefix, log, task.length,
                        task.mode, task.lengths)
      [] task.op = "struct_loop" ->
             struct_loop(cache, task.info, view, task.st, fmt_prefix)
      [] task.op = "union_loop" ->
             union_loop(cache, task.info, view, task.st, fmt_prefix)

(***************************************************************************)
(* headers.py: the writers of the framing headers.  A buffer under         *)
(* construction is the sequence of the bytes written so far, so the offset *)
(* of the next byte is its length.                                         *)
(***************************************************************************)
Zeros(n) == [i \in 1..n |-> 0]

(* The size bytes of the unsigned value val, most significant first. *)
RECURSIVE BytesBE(_, _)
BytesBE(val, size) ==
    IF size = 0 THEN << >> ELSE Append(BytesBE(val \div 256, size - 1), val % 256)

(* struct.pack_into(fmt_prefix + code, buffer, offset, val) at the end of buffer. *)
pack(buffer, fmt_prefix, size, val) ==
    buffer \o (IF fmt_prefix = "<" THEN Reverse(BytesBE(val, size)) ELSE BytesBE(val, size))

write_delimiter_header(buffer, fmt_prefix, size) == pack(buffer, fmt_prefix, 4, size)

(* A writer that places the header at the cursor, without alignment. *)
write_member_header_unaligned(buffer, fmt_prefix, member_id, object_size, must_understand) ==
    pack(pack(buffer, fmt_prefix, 2,
              (IF must_understand THEN 16384 ELSE 0) + (member_id % 16384)),
         fmt_prefix, 2, object_size % 65536)

write_member_header(buffer, fmt_prefix, member_id, object_size, must_understand) ==
    LET b == buffer \o Zeros(_padding(Len(buffer), 4))
        header == (IF must_understand THEN 16384 ELSE 0) + (member_id % 16384)
    IN  pack(pack(b, fmt_prefix, 2, header), fmt_prefix, 2, object_size % 65536)

write_sentinel_header(buffer, fmt_prefix) ==
    LET b == buffer \o Zeros(_padding(Len(buffer), 4))
    IN  pack(pack(b, fmt_prefix, 2, SENTINEL_PID), fmt_prefix, 2, 0)

(***************************************************************************)
(* message_writer.py (not in the source tree): MessageWriter.write_message,*)
(* from section 4.6 of the specification.  A writer result is              *)
(* [ok, buf]; ok is FALSE for a bounds violation.                          *)
(***************************************************************************)
WOk(b) == [ok |-> TRUE, buf |-> b]

WRaise == [ok |-> FALSE, buf |-> << >>]

(* The bytes of a primitive value, most significant first. *)
primitive_bytes(t, val) ==
    LET size == _primitive_size(t)
        twos(v, n) == IF v < 0
                      THEN [i \in 1..n |-> 255 - BytesBE(0 - (v + 1), n)[i]]
                      ELSE BytesBE(v, n)
    IN  CASE t = "bool" -> <<IF val THEN 1 ELSE 0>>
          [] t \in {"int64", "uint64"} -> twos(val[1], 4) \o BytesBE(val[2], 4)
          [] OTHER -> twos(val, size)

write_primitive(buffer, fmt_prefix, t, val) ==
    LET b == buffer \o Zeros(_padding(Len(buffer), _primitive_size(t)))
        raw == primitive_bytes(t, val)
    IN  b \o (IF fmt_prefix = "<" THEN Reverse(raw) ELSE raw)

(* str.encode: UTF-8 of ASCII text, UTF-16LE. *)
encode(t, s) ==
    IF t = "string" THEN s
    ELSE [i \in 1..(2 * Len(s)) |->
             IF i % 2 = 1 THEN s[(i + 1) \div 2] % 256 ELSE s[i \div 2] \div 256]

write_string(buffer, fmt_prefix, field, s) ==
    LET b == buffer \o Zeros(_padding(Len(buffer), 4))
        term == IF field.type = "string" THEN <<0>> ELSE <<0, 0>>
        data == encode(field.type, s) \o term
    IN  IF exceeds_bound(field, s) THEN WRaise
        ELSE WOk(pack(b, fmt_prefix, 4, Len(data)) \o data)

(* The recursive calls of the writer go through Encode, as the reader's through
   Decode. *)
RECURSIVE Encode(_, _, _, _, _)

WTask(op) ==
    [op |-> op, field |-> NoField, info |-> NoField, lengths |-> << >>, i |-> 0]

call_write_struct(cache, buffer, fmt_prefix, info, value) ==
    Encode(cache, [WTask("write_struct") EXCEPT !.info = info], buffer, fmt_prefix, value)

call_write_union(cache, buffer, fmt_prefix, info, value) ==
    Encode(cache, [WTask("write_union") EXCEPT !.info = info], buffer, fmt_prefix, value)

call_write_field(cache, buffer, fmt_prefix, field, value) ==
    Encode(cache, [WTask("write_field") EXCEPT !.field = field], buffer, fmt_prefix, value)

call_write_array(cache, buffer, fmt_prefix, field, value, lengths) ==
    Encode(cache, [WTask("write_array") EXCEPT !.field = field, !.lengths = lengths],
           buffer, fmt_prefix, value)

call_write_items(cache, buffer, fmt_prefix, field, items, i, lengths) ==
    Encode(cache, [WTask("write_items") EXCEPT !.field = field, !.i = i,
                                               !.lengths = lengths],
           buffer, fmt_prefix, items)

call_write_members(cache, buffer, fmt_prefix, info, value, i) ==
    Encode(cache, [WTask("write_members") EXCEPT !.info = info, !.i = i], buffer,
           fmt_prefix, value)



(* The elements of a sequence or of the last dimension of an array, in order. *)
write_items(cache, buffer, fmt_prefix, field, items, i, lengths) ==
    LET continued(one) ==
            IF ~one.ok THEN one
            ELSE call_write_items(cache, one.buf, fmt_prefix, field, items, i + 1, lengths)
    IN  IF i > Len(items) THEN WOk(buffer)
        ELSE continued(
                 IF Len(lengths) > 0
                 THEN call_write_array(cache, buffer, fmt_prefix, field, items[i], lengths)
                 ELSE IF field.type \in {"string", "wstring"}
                 THEN write_string(buffer, fmt_prefix, field, items[i])
                 ELSE IF field.type \in DOMAIN PRIMITIVE_SIZES
                 THEN WOk(write_primitive(buffer, fmt_prefix, field.type, items[i]))
                 ELSE IF cache[field.type_info].kind = "struct"
                 THEN call_write_struct(cache, buffer, fmt_prefix, cache[field.type_info],
                                        items[i])
                 ELSE call_write_union(cache, buffer, fmt_prefix, cache[field.type_info],
                                       items[i]))

write_array(cache, buffer, fmt_prefix, field, value, lengths) ==
    call_write_items(cache, buffer, fmt_prefix, field, value, 1, Tail(lengths))

write_field(cache, buffer, fmt_prefix, field, value) ==
    IF field.is_array
    THEN call_write_array(cache, buffer, fmt_prefix, field, value, field.array_lengths)
    ELSE IF field.is_sequence
    THEN call_write_items(cache,
                          pack(buffer \o Zeros(_padding(Len(buffer), 4)), fmt_prefix, 4,
                               Len(value)),
                          fmt_prefix, field, value, 1, << >>)
    ELSE IF field.type \in {"string", "wstring"}
    THEN write_string(buffer, fmt_prefix, field, value)
    ELSE IF field.type \in DOMAIN PRIMITIVE_SIZES
    THEN WOk(write_primitive(buffer, fmt_prefix, field.type, value))
    ELSE IF cache[field.type_info].kind = "struct"
    THEN call_write_struct(cache, buffer, fmt_prefix, cache[field.type_info], value)
    ELSE call_write_union(cache, buffer, fmt_prefix, cache[field.type_info], value)

(* One member: with member headers, the header carries the size of the value. *)
write_member(cache, buffer, fmt_prefix, info, field, value) ==
    LET sized(start, body) ==
            IF ~body.ok THEN body
            ELSE WOk(write_member_header(buffer, fmt_prefix, field.id,
                                         Len(body.buf) - start, FALSE)
                     \o SubSeq(body.buf, start + 1, Len(body.buf)))
        after(hole) ==
            sized(Len(hole), call_write_field(cache, hole, fmt_prefix, field, value))
    IN  IF ~info.uses_member_header
        THEN call_write_field(cache, buffer, fmt_prefix, field, value)
        ELSE after(write_member_header(buffer, fmt_prefix, field.id, 0, FALSE))

write_members(cache, buffer, fmt_prefix, info, value, i) ==
    LET continued(one) ==
            IF ~one.ok THEN one
            ELSE call_write_members(cache, one.buf, fmt_prefix, info, value, i + 1)
    IN  IF i > Len(info.fields) THEN WOk(buffer)
        ELSE continued(write_member(cache, buffer, fmt_prefix, info, info.fields[i],
                                    value[info.fields[i].name]))

(* The framing of an aggregate body: delimiter header with the length of the body,
   and the sentinel after the members. *)
framed(buffer, fmt_prefix, info, body) ==
    LET delimited(b4, full) ==
            WOk(write_delimiter_header(b4, fmt_prefix, Len(full) - (Len(b4) + 4))
                \o SubSeq(full, Len(b4) + 5, Len(full)))
        closed(full) ==
            IF info.uses_delimiter_header
            THEN delimited(buffer \o Zeros(_padding(Len(buffer), 4)), full)
            ELSE WOk(full)
    IN  IF ~body.ok THEN body
        ELSE closed(IF info.uses_member_header
                    THEN write_sentinel_header(body.buf, fmt_prefix)
                    ELSE body.buf)

body_start(buffer, info) ==
    IF info.uses_delimiter_header
    THEN buffer \o Zeros(_padding(Len(buffer), 4) + 4)
    ELSE buffer

write_struct(cache, buffer, fmt_prefix, info, value) ==
    framed(buffer, fmt_prefix, info,
           call_write_members(cache, body_start(buffer, info), fmt_prefix, info, value, 1))

write_union(cache, buffer, fmt_prefix, info, value) ==
    LET case(d, case_field) ==
            IF ~d.ok \/ case_field.name = "" THEN d
            ELSE write_member(cache, d.buf, fmt_prefix, info, case_field,
                              value[case_field.name])
    IN  framed(buffer, fmt_prefix, info,
               case(write_member(cache, body_start(buffer, info), fmt_prefix, info,
                                 disc_info(info, 1), value[UNION_DISCRIMINATOR_PROPERTY_KEY]),
                    _union_case_field(info.definition,
                                      value[UNION_DISCRIMINATOR_PROPERTY_KEY])))

Encode(cache, task, buffer, fmt_prefix, value) ==
    CASE task.op = "write_struct" ->
             write_struct(cache, buffer, fmt_prefix, task.info, value)
      [] task.op = "write_union" ->
             write_union(cache, buffer, fmt_prefix, task.info, value)
      [] task.op = "write_field" ->
             write_field(cache, buffer, fmt_prefix, task.field, value)
      [] task.op = "write_array" ->
             write_array(cache, buffer, fmt_prefix, task.field, value, task.lengths)
      [] task.op = "write_items" ->
             write_items(cache, buffer, fmt_prefix, task.field, value, task.i,
                         task.lengths)
      [] task.op = "write_members" ->
             write_members(cache, buffer, fmt_prefix, task.info, value, task.i)

(* Section 4.6: the four encapsulation bytes, then the root struct. *)
write_message(cache, root_info, value, kind) ==
    write_struct(cache, <<0, kind, 0, 0>>,
                 IF kind \in LITTLE_ENDIAN_KINDS THEN "<" ELSE ">", root_info, value)

(***************************************************************************)
(* The schemas the reader is constructed for, as the plans the cache holds *)
(* for them, and the values written for each.                              *)
(***************************************************************************)
Prim(name, id, type) == FieldInfo(name, id, type)

Str(name, id, type, bound) == [FieldInfo(name, id, type) EXCEPT !.string_upper_bound = bound]

Seq_(f) == [f EXCEPT !.is_sequence = TRUE]

Arr(f, lengths) == [f EXCEPT !.is_array = TRUE, !.array_lengths = lengths]

Complex(name, id, type) == [FieldInfo(name, id, type) EXCEPT !.type_info = type]

StructPlan(fields) == [kind |-> "struct", fields |-> fields]

UnionPlan(switch_type, cases, default) ==
    [kind |-> "union",
     definition |-> [switch_type |-> switch_type, cases |-> cases, default |-> default]]

Case(value, field) == [value |-> value, field |-> field]

Schemas ==
    << [root |-> "A", types |-> [n \in {"A"} |-> StructPlan(<<Prim("num", 1, "int32")>>)]],
       [root |-> "A", types |-> [n \in {"A"} |->
            StructPlan(<<Prim("num", 1, "int32"), Prim("flag", 2, "uint8")>>)]],
       [root |-> "A", types |-> [n \in {"A"} |->
            StructPlan(<<Prim("flag", 1, "uint8"), Prim("big", 2, "uint64"),
                         Prim("h", 3, "uint16")>>)]],
       [root |-> "A", types |-> [n \in {"A"} |->
            StructPlan(<<Str("name", 1, "string", 2)>>)]],
       [root |-> "A", types |-> [n \in {"A"} |->
            StructPlan(<<Str("name", 1, "wstring", 2)>>)]],
       [root |-> "A", types |-> [n \in {"A"} |->
            StructPlan(<<Seq_(Str("names", 1, "string", 2))>>)]],
       [root |-> "A", types |-> [n \in {"A"} |->
            StructPlan(<<Arr(Str("names", 1, "string", 2), <<2>>)>>)]],
       [root |-> "A", types |-> [n \in {"A"} |->
            StructPlan(<<Prim("x", 1, "uint8"), Seq_(Prim("data", 2, "uint32"))>>)]],
       [root |-> "Outer", types |-> [n \in {"Outer", "Inner"} |->
            IF n = "Inner" THEN StructPlan(<<Prim("num", 1, "int32")>>)
            ELSE StructPlan(<<Seq_(Complex("inners", 1, "Inner")),
                              Complex("inner", 2, "Inner")>>)]],
       [root |-> "Holder", types |-> [n \in {"Holder", "Shape"} |->
            IF n = "Shape"
            THEN UnionPlan("uint8", <<Case(0, Prim("a", 2, "uint8")),
                                      Case(1, Prim("b", 3, "int32"))>>,
                           Prim("c", 4, "uint16"))
            ELSE StructPlan(<<Complex("shape", 1, "Shape"), Prim("tail", 2, "uint8")>>)]],
       [root |-> "Holder", types |-> [n \in {"Holder", "Opt"} |->
            IF n = "Opt"
            THEN UnionPlan("uint32", <<Case(1, Prim("a", 2, "uint16")),
                                       Case(2, Str("s", 3, "string", -1))>>,
                           NoField)
            ELSE StructPlan(<<Complex("opt", 1, "Opt")>>)]],
       [root |-> "A", types |-> [n \in {"A"} |->
            StructPlan(<<Arr(Prim("data", 1, "uint8"), <<2, 3>>)>>)]],
       [root |-> "A", types |-> [n \in {"A"} |->
            StructPlan(<<Prim("x", 1, "uint8"),
                         Arr(Prim("grid", 2, "uint16"), <<2, 2>>)>>)]] >>

D(disc) == (UNION_DISCRIMINATOR_PROPERTY_KEY :> disc)

Values ==
    << {[num |-> 42], [num |-> -2]},
       {[num |-> 5, flag |-> 7], [num |-> 42, flag |-> 1]},
       {[flag |-> 1, big |-> <<0, 3>>, h |-> 2], [flag |-> 0, big |-> <<1, 0>>, h |-> 5]},
       {[name |-> << >>], [name |-> <<104, 105>>], [name |-> <<104, 101, 121>>]},
       {[name |-> <<104, 105>>], [name |-> <<104, 101, 121>>]},
       {[names |-> << >>], [names |-> << <<104, 105>> >>],
        [names |-> << <<104>>, <<104, 101, 121>> >>]},
       {[names |-> << <<104>>, <<104, 105>> >>],
        [names |-> << <<104, 101, 121>>, << >> >>]},
       {[x |-> 1, data |-> <<3, 7>>], [x |-> 2, data |-> << >>]},
       {[inners |-> << [num |-> 1], [num |-> 2] >>, inner |-> [num |-> 5]],
        [inners |-> << >>, inner |-> [num |-> 3]]},
       {[shape |-> Put(D(0), "a", 9), tail |-> 1],
        [shape |-> Put(D(1), "b", 5), tail |-> 2],
        [shape |-> Put(D(2), "c", 3), tail |-> 3]},
       {[opt |-> Put(D(1), "a", 6)], [opt |-> Put(D(2), "s", <<104, 105>>)],
        [opt |-> D(3)]},
       {[data |-> << <<1, 2, 3>>, <<4, 5, 6>> >>]},
       {[x |-> 9, grid |-> << <<1, 2>>, <<3, 260>> >>]} >>

Framings == {"plain", "delimited", "pl"}

KindsOf(framing) ==
    CASE framing = "plain" -> {CDR_BE, CDR_LE}
      [] framing = "delimited" -> {DELIMITED_CDR2_BE, DELIMITED_CDR2_LE}
      [] OTHER -> {PL_CDR2_BE, PL_CDR2_LE}

(* The cache a reader or writer builds for a schema: the plans, with the header
   flags its encapsulation selection gives (section 4.5). *)
DeserializationInfoCache(definitions) ==
    LET types == Schemas[definitions.id].types
    IN  [n \in DOMAIN types |->
            types[n] @@ [uses_delimiter_header |-> definitions.framing # "plain",
                         uses_member_header |-> definitions.framing = "pl"]]

(* The same schema with every string bound removed: what a producer that does not
   know the bound writes. *)
Unbounded(c) ==
    [n \in DOMAIN c |->
        IF c[n].kind = "struct"
        THEN [c[n] EXCEPT !.fields =
                 [i \in 1..Len(c[n].fields) |->
                     [c[n].fields[i] EXCEPT !.string_upper_bound = -1]]]
        ELSE c[n]]

MaxCut == 4

(* The bytes of a message with its last c bytes missing. *)
Cut(buffer, c) == SubSeq(buffer, 1, Len(buffer) - Min(c, Len(buffer)))

Written(definitions) ==
    LET c == Unbounded(DeserializationInfoCache(definitions))
        root == c[Schemas[definitions.id].root]
    IN  {write_message(c, root, v, k).buf :
            v \in Values[definitions.id], k \in KindsOf(definitions.framing)}

(* A PL_CDR2_LE message for struct A { int32 num; }: delimiter header (20 bytes),
   member 2 of size 4 (bytes 9 9 9 9), member 1 of size 4 (num = 42), sentinel. *)
UnknownMemberBuffer ==
    <<0, 19, 0, 0,  20, 0, 0, 0,  2, 0, 4, 0,  9, 9, 9, 9,
      1, 0, 4, 0,  42, 0, 0, 0,  2, 63, 0, 0>>

(* A PL_CDR2_LE message for struct A { int32 num; } whose delimiter header
   declares a body of 0 bytes: the member 1 (num = 42) and the sentinel lie at
   and beyond the declared end of the body. *)
EmptyBodyBuffer ==
    <<0, 19, 0, 0,  0, 0, 0, 0,  1, 0, 4, 0,  42, 0, 0, 0,  2, 63, 0, 0>>

(* Buffers no writer of the schema produces: too short for the encapsulation header,
   an unknown encapsulation kind, and (for struct A { int32 num; } in parameter-list
   framing) a body with a member of unknown id 2 before the member of id 1 and a
   body longer than its delimiter header declares. *)
(* Delimited buffers whose delimiter headers do not give the length the
   fields take: struct A { int32 num; } with a body of 8 and of 2 bytes;
   Holder { Shape shape; uint8 tail; } with a union body of 4 bytes and of 1
   byte around the discriminator 0 and the case a; Outer with one element of
   inners in a body of 8 bytes. *)
LongBodyBuffer == <<0, 21, 0, 0,  8, 0, 0, 0,  42, 0, 0, 0,  7, 7, 7, 7>>

ShortBodyBuffer == <<0, 21, 0, 0,  2, 0, 0, 0,  42, 0, 0, 0>>

LongUnionBuffer == <<0, 21, 0, 0,  9, 0, 0, 0,  4, 0, 0, 0,  0, 9, 7, 7,  1>>

ShortUnionBuffer == <<0, 21, 0, 0,  7, 0, 0, 0,  1, 0, 0, 0,  0, 9, 1>>

LongElementBuffer ==
    <<0, 21, 0, 0,  24, 0, 0, 0,  1, 0, 0, 0,  8, 0, 0, 0,  5, 0, 0, 0,  7, 7, 7, 7,
      4, 0, 0, 0,  3, 0, 0, 0>>

Crafted(definitions) ==
    {<<0>>, <<0, 99, 0, 0>>} \cup
    (IF definitions.id = 1 /\ definitions.framing = "pl"
     THEN {UnknownMemberBuffer, EmptyBodyBuffer}
     ELSE IF definitions.id = 1 /\ definitions.framing = "delimited"
     THEN {LongBodyBuffer, ShortBodyBuffer}
     ELSE IF definitions.id = 9 /\ definitions.framing = "delimited"
     THEN {LongElementBuffer}
     ELSE IF definitions.id = 10 /\ definitions.framing = "delimited"
     THEN {LongUnionBuffer, ShortUnionBuffer}
     ELSE {})

Inputs(definitions) ==
    {Cut(b, c) : b \in Written(definitions), c \in 0..MaxCut} \cup Crafted(definitions)

Constructions == [id : 1..Len(Schemas), framing : Framings]

AllWritten == [d \in Constructions |-> Written(d)]

AllInputs == [d \in Constructions |-> Inputs(d)]

(***************************************************************************)
(* omgidl_parser/parse.py: the resolver.  A type name is the record        *)
(* [abs, path]: path is the sequence of identifiers that "::" separates in *)
(* the string, abs says that the string starts with "::".  A definition is *)
(* a record with its kind ("module", "struct", "union", "typedef", "enum", *)
(* "constant"), its name and the attributes of its dataclass; the default  *)
(* of a union without one (None) is the field of name "".                  *)
(***************************************************************************)
TypeName(path) == [abs |-> FALSE, path |-> path]

Field(name, type) ==
    [name |-> name, type |-> type, array_length |-> -1, is_sequence |-> FALSE,
     sequence_bound |-> -1]

Constant(name, type, value) ==
    [kind |-> "constant", name |-> name, type |-> type, value |-> value]

Enum(name, enumerators) == [kind |-> "enum", name |-> name, enumerators |-> enumerators]

Struct(name, fields) == [kind |-> "struct", name |-> name, fields |-> fields]

Typedef(name, type) ==
    [kind |-> "typedef", name |-> name, type |-> type, array_length |-> -1,
     is_sequence |-> FALSE, sequence_bound |-> -1]

UnionCase(value, field) == [value |-> value, field |-> field]

Union(name, switch_type, cases, default) ==
    [kind |-> "union", name |-> name, switch_type |-> switch_type, cases |-> cases,
     default |-> default]

Module(name, defs) == [kind |-> "module", name |-> name, definitions |-> defs]

_NORMALIZATION ==
    [t \in {"long double", "double", "float", "short", "unsigned short",
            "unsigned long long", "unsigned long", "long long", "long"} |->
        CASE t \in {"long double", "double"} -> "float64"
          [] t = "float" -> "float32"
          [] t = "short" -> "int16"
          [] t = "unsigned short" -> "uint16"
          [] t = "unsigned long long" -> "uint64"
          [] t = "unsigned long" -> "uint32"
          [] t = "long long" -> "int64"
          [] OTHER -> "int32"]

_BUILTIN_TYPES ==
    {"float64", "float32", "int16", "uint16", "uint64", "uint32", "int64", "int32",
     "int8", "uint8", "byte", "octet", "wchar", "char", "string", "wstring", "boolean"}

(* "t in self._BUILTIN_TYPES", for the string t. *)
is_builtin(t) == ~t.abs /\ Len(t.path) = 1 /\ t.path[1] \in _BUILTIN_TYPES

(* "self._NORMALIZATION.get(t, t)", for the string t. *)
normalized(t) ==
    IF ~t.abs /\ Len(t.path) = 1 /\ t.path[1] \in DOMAIN _NORMALIZATION
    THEN TypeName(<<_NORMALIZATION[t.path[1]]>>)
    ELSE t

(***************************************************************************)
(* The callbacks of _Transformer.  The transformer works bottom-up and     *)
(* from left to right, so the definitions of a source are built in their   *)
(* order.  A parsed definition holds the children of its node, without the *)
(* tokens the parser filters out (keywords and punctuation): a type is the *)
(* type name of its token or [inner, bound] for sequence<inner, bound>; an *)
(* atom of a constant expression is [lit |-> TRUE, val |-> number] or      *)
(* [lit |-> FALSE, val |-> scoped name]; the enum_value of an enumerator   *)
(* is the list of the children of that node, empty when there is none.     *)
(***************************************************************************)
type_(t) ==
    IF "inner" \in DOMAIN t THEN [t EXCEPT !.inner = normalized(t.inner)]
    ELSE normalized(t)

(* Lines 232-250 and 290-307: the attributes of a field or typedef, from the
   result of type_ and the array length. *)
declared(node, t, array_length) ==
    [node EXCEPT !.type = IF "inner" \in DOMAIN t THEN t.inner ELSE t,
                 !.is_sequence = "inner" \in DOMAIN t,
                 !.sequence_bound = IF "inner" \in DOMAIN t THEN t.bound ELSE -1,
                 !.array_length = array_length]

(* Lines 264-280, from item idx on. *)
RECURSIVE const_sum(_, _, _, _)
const_sum(items, idx, total, _constants) ==
    IF idx > Len(items) THEN Ok(total, 0, << >>)
    ELSE IF items[idx].lit
    THEN const_sum(items, idx + 1, total + items[idx].val, _constants)
    ELSE IF items[idx].val \notin DOMAIN _constants THEN Raise("ValueError")
    ELSE const_sum(items, idx + 1, total + _constants[items[idx].val], _constants)

const_value_first(items, _constants) ==
    IF items[1].lit THEN Ok(items[1].val, 0, << >>)
    ELSE IF items[1].val \notin DOMAIN _constants THEN Raise("ValueError")
    ELSE Ok(_constants[items[1].val], 0, << >>)

const_value(items, _constants) ==
    IF Len(items) = 1
    THEN IF items[1].lit THEN Ok(items[1].val, 0, << >>)
         ELSE IF items[1].val \notin DOMAIN _constants THEN Raise("ValueError")
         ELSE Ok(_constants[items[1].val], 0, << >>)
    ELSE const_sum(items, 1, 0, _constants)

(* "(_, _, val, _) = items". *)
enum_value(items) ==
    IF Len(items) # 4 THEN Raise("ValueError") ELSE Ok(items[3], 0, << >>)

(* The tuple (name, value) of an enumerator, value -1 for None. *)
enumerator(items) ==
    LET valued(val) ==
            IF ~val.ok THEN val ELSE Ok([name |-> items.name, value |-> val.val], 0, << >>)
    IN  IF Len(items.enum_value) = 0
        THEN Ok([name |-> items.name, value |-> -1], 0, << >>)
        ELSE valued(enum_value(items.enum_value))

(* Lines 345-356: the constants of the enumerators from number k on, current
   being the value of the one before. *)
RECURSIVE enum_constants(_, _, _)
enum_constants(enumerators_raw, k, current) ==
    LET valued(value) ==
            <<Constant(enumerators_raw[k].name, TypeName(<<"uint32">>), value)>>
            \o enum_constants(enumerators_raw, k + 1, value)
    IN  IF k > Len(enumerators_raw) THEN << >>
        ELSE valued(IF enumerators_raw[k].value # -1 THEN enumerators_raw[k].value
                    ELSE current + 1)

(* Enumerators registered without replacing a name the table has. *)
registered_kept(name, constants, _constants) ==
    _constants
    @@ [n \in {constants[k].name : k \in 1..Len(constants)}
               \cup {name \o "::" \o constants[k].name : k \in 1..Len(constants)} |->
           constants[CHOOSE k \in 1..Len(constants) :
                         n \in {constants[k].name, name \o "::" \o constants[k].name}].value]

(* Lines 355-356: the enumerators registered by their names and by
   EnumName::Enumerator. *)
registered(name, constants, _constants) ==
    [n \in {constants[k].name : k \in 1..Len(constants)}
           \cup {name \o "::" \o constants[k].name : k \in 1..Len(constants)} |->
        constants[CHOOSE k \in 1..Len(constants) :
                      /\ n \in {constants[k].name, name \o "::" \o constants[k].name}
                      /\ \A j \in 1..Len(constants) :
                             n \in {constants[j].name, name \o "::" \o constants[j].name}
                                 => j <= k].value]
    @@ _constants

(* The callback of one definition of the source: constant (lines 282-287),
   enum (341-357), typedef (289-307), union (317-326) with union_case (309-311),
   module (385-388), struct (381-384) with field (227-250).  The result is the
   node and the transformer's _constants after it. *)
RECURSIVE definition(_, _)

(* The definitions of a module body from number k on, built in their order
   on the one table of the transformer. *)
RECURSIVE module_definitions(_, _, _, _)
module_definitions(items, k, nodes, _constants) ==
    LET next(r) ==
            IF ~r.ok THEN r
            ELSE module_definitions(items, k + 1, Append(nodes, r.val.node), r.val._constants)
    IN  IF k > Len(items) THEN Ok([node |-> nodes, _constants |-> _constants], 0, << >>)
        ELSE next(definition(items[k], _constants))

definition(items, _constants) ==
    LET built(node, constants) == Ok([node |-> node, _constants |-> constants], 0, << >>)
        field(f) == declared(Field(f.name, f.type), type_(f.type), f.array_length)
        union(values) ==
            IF \E k \in 1..Len(values) : ~values[k].ok THEN Raise("ValueError")
            ELSE built(Union(items.name, type_(items.switch_type),
                             [k \in 1..Len(values) |->
                                 UnionCase(values[k].val, field(items.cases[k].field))],
                             IF Len(items.default) = 0 THEN Field("", TypeName(<<"int32">>))
                             ELSE field(items.default[1])),
                       _constants)
        module(body) ==
            IF ~body.ok THEN body
            ELSE built(Module(items.name, body.val.node), body.val._constants)
        constant(value) ==
            IF ~value.ok THEN value
            ELSE built(Constant(items.name, type_(items.type), value.val),
                       Put(_constants, items.name, value.val))
        enum_node(constants) ==
            built(Enum(items.name, constants), registered(items.name, constants, _constants))
        enum(enumerators_raw) ==
            IF \E k \in 1..Len(enumerators_raw) : ~enumerators_raw[k].ok
            THEN Raise("ValueError")
            ELSE enum_node(enum_constants([k \in 1..Len(enumerators_raw) |->
                                              enumerators_raw[k].val], 1, -1))
    IN  CASE items.kind = "const" -> constant(const_value(items.atoms, _constants))
          [] items.kind = "enum" ->
                 enum([k \in 1..Len(items.enumerators) |-> enumerator(items.enumerators[k])])
          [] items.kind = "typedef" ->
                 built(declared(Typedef(items.name, items.type), type_(items.type),
                                items.array_length), _constants)
          [] items.kind = "union" ->
                 union([k \in 1..Len(items.cases) |->
                           const_value(items.cases[k].atoms, _constants)])
          [] items.kind = "module" ->
                 module(module_definitions(items.definitions, 1, << >>, _constants))
          [] OTHER ->
                 built(Struct(items.name,
                              [k \in 1..Len(items.fields) |->
                                  declared(Field(items.fields[k].name, items.fields[k].type),
                                           type_(items.fields[k].type),
                                           items.fields[k].array_length)]),
                       _constants)

(* Pass 1: the qualified names of the structs, unions and typedefs. *)
RECURSIVE collect(_, _)
collect(defs, scope) ==
    UNION {IF defs[i].kind \in {"struct", "union", "typedef"}
           THEN {scope \o <<defs[i].name>>}
           ELSE IF defs[i].kind = "module"
           THEN collect(defs[i].definitions, scope \o <<defs[i].name>>)
           ELSE {} : i \in 1..Len(defs)}

(* "for i in range(len(scope), -1, -1)": the candidate of the longest prefix of
   the scope that is in named_types, the name itself when there is none. *)
innermost(t, scope, named_types) ==
    LET found == {i \in 0..Len(scope) : (SubSeq(scope, 1, i) \o t.path) \in named_types}
    IN  IF found = {} THEN t
        ELSE TypeName(SubSeq(scope, 1, CHOOSE i \in found : \A j \in found : j <= i)
                      \o t.path)

(* The test that guards the loop for switch types and typedefs (lines 436-440,
   451-455); resolve_field tests the same in lines 410-415. *)
is_unqualified(t) == ~is_builtin(t) /\ ~t.abs /\ Len(t.path) = 1

resolve_field(f, scope, named_types) ==
    IF is_builtin(f.type) THEN f
    ELSE IF f.type.abs THEN [f EXCEPT !.type = TypeName(f.type.path)]
    ELSE IF Len(f.type.path) > 1 THEN f
    ELSE [f EXCEPT !.type = innermost(f.type, scope, named_types)]

resolve_union(d, scope, named_types) ==
    LET switched(switch_type) ==
            IF is_unqualified(switch_type)
            THEN innermost(switch_type, scope, named_types)
            ELSE switch_type
    IN  [d EXCEPT !.switch_type = switched(normalized(d.switch_type)),
                  !.cases = [i \in 1..Len(d.cases) |->
                                [d.cases[i] EXCEPT
                                    !.field = resolve_field(d.cases[i].field, scope,
                                                            named_types)]],
                  !.default = IF d.default.name = "" THEN d.default
                              ELSE resolve_field(d.default, scope, named_types)]

(* Pass 2: the definitions with the types of their fields rewritten. *)
RECURSIVE resolve(_, _, _)
resolve(defs, scope, named_types) ==
    [i \in 1..Len(defs) |->
        CASE defs[i].kind = "struct" ->
                 [defs[i] EXCEPT !.fields =
                     [j \in 1..Len(defs[i].fields) |->
                         resolve_field(defs[i].fields[j], scope, named_types)]]
          [] defs[i].kind = "union" -> resolve_union(defs[i], scope, named_types)
          [] defs[i].kind = "typedef" ->
                 IF is_unqualified(defs[i].type)
                 THEN [defs[i] EXCEPT !.type = innermost(defs[i].type, scope, named_types)]
                 ELSE defs[i]
          [] defs[i].kind = "module" ->
                 [defs[i] EXCEPT !.definitions =
                     resolve(defs[i].definitions, scope \o <<defs[i].name>>, named_types)]
          [] OTHER -> defs[i]]

(* One pass: each definition resolved against the names declared up to it. *)
resolve_types_one_pass(defs) ==
    [i \in 1..Len(defs) |->
        resolve(<<defs[i]>>, << >>, collect(SubSeq(defs, 1, i), << >>))[1]]

resolve_types(defs) == resolve(defs, << >>, collect(defs, << >>))

(***************************************************************************)
(* The sources parse_idl is given: modules a, a::b and a::c, a declaration *)
(* named X (or none) at the top level and in each module, and one user of  *)
(* a written type at the top level, in a or in a::b: the field of a        *)
(* struct, a union (its switch type, a case and its default) or a typedef. *)
(***************************************************************************)
DeclKinds == {"none", "struct", "union", "typedef", "enum"}

Decl(kind) ==
    CASE kind = "struct" -> <<Struct("X", <<Field("num", TypeName(<<"int32">>))>>)>>
      [] kind = "union" ->
             <<Union("X", TypeName(<<"int32">>),
                     <<UnionCase(0, Field("a", TypeName(<<"uint8">>)))>>,
                     Field("", TypeName(<<"int32">>)))>>
      [] kind = "typedef" -> <<Typedef("X", TypeName(<<"int32">>))>>
      [] kind = "enum" -> <<Enum("X", <<Constant("A", TypeName(<<"uint32">>), 0)>>)>>
      [] OTHER -> << >>

WrittenTypes ==
    {TypeName(<<"X">>), TypeName(<<"b", "X">>), TypeName(<<"a", "X">>),
     TypeName(<<"int32">>)}

User(kind, t) ==
    CASE kind = "struct" -> <<Struct("S", <<Field("f", t)>>)>>
      [] kind = "union" ->
             <<Union("U", t, <<UnionCase(0, Field("c", t))>>, Field("d", t))>>
      [] OTHER -> <<Typedef("T", t)>>

UserKinds == {"struct", "union", "typedef"}

Source(decl, user, at, t) ==
    LET here(place) == IF at = place THEN User(user, t) ELSE << >>
    IN  Decl(decl[1]) \o
        <<Module("a", Decl(decl[2]) \o
                      <<Module("b", Decl(decl[3]) \o here(3)),
                        Module("c", Decl(decl[4]))>> \o here(2))>> \o here(1)

Sources ==
    {Source(decl, user, at, t) :
        decl \in [1..4 -> DeclKinds], user \in UserKinds, at \in 1..3, t \in WrittenTypes}

(***************************************************************************)
(* ros2idl_parser/parse.py: the flat view of the definitions parse_idl     *)
(* returns.  "::".join and "/".join give strings; a type is kept as a type *)
(* name until _normalize_name makes the string with "/" of it.  The map of *)
(* build_map (omgidl_parser/process.py, not in the source tree) has the    *)
(* fully-qualified name of every definition as its keys.  None for a       *)
(* definition is NoDefinition, None for enumType is "".                    *)
(***************************************************************************)
RECURSIVE Join(_, _)
Join(path, sep) ==
    IF Len(path) = 0 THEN ""
    ELSE IF Len(path) = 1 THEN path[1]
    ELSE path[1] \o sep \o Join(Tail(path), sep)

MessageDefinitionField(type, name) ==
    [type |-> type, name |-> name, isComplex |-> FALSE, enumType |-> "",
     isArray |-> FALSE, arrayLength |-> -1, isConstant |-> FALSE, value |-> -1,
     arrayUpperBound |-> -1]

MessageDefinition(name, fields) == [name |-> name, definitions |-> fields]

NoDefinition == [kind |-> "none"]

RECURSIVE build_map(_, _)
build_map(defs, scope) ==
    IF Len(defs) = 0 THEN EmptyMap
    ELSE build_map(Tail(defs), scope)
         @@ ((scope \o <<Head(defs).name>>) :> Head(defs))
         @@ (IF Head(defs).kind = "module"
             THEN build_map(Head(defs).definitions, scope \o <<Head(defs).name>>)
             ELSE EmptyMap)

RECURSIVE _collect_typedefs(_, _)
_collect_typedefs(defs, scope) ==
    IF Len(defs) = 0 THEN EmptyMap
    ELSE _collect_typedefs(Tail(defs), scope)
         @@ (IF Head(defs).kind = "typedef"
             THEN (scope \o <<Head(defs).name>>) :> Head(defs)
             ELSE IF Head(defs).kind = "module"
             THEN _collect_typedefs(Head(defs).definitions, scope \o <<Head(defs).name>>)
             ELSE EmptyMap)

(* "name in m" and "m.get(name)" for the string of the type name. *)
has_key(m, name) == ~name.abs /\ name.path \in DOMAIN m

_resolve_scoped_type(name, scope, idl_map) ==
    LET found == {i \in 0..Len(scope) : (SubSeq(scope, 1, i) \o name.path) \in DOMAIN idl_map}
        scoped(i) == [type |-> TypeName(SubSeq(scope, 1, i) \o name.path),
                      ref |-> idl_map[SubSeq(scope, 1, i) \o name.path]]
    IN  IF has_key(idl_map, name) THEN [type |-> name, ref |-> idl_map[name.path]]
        ELSE IF name.abs \/ Len(name.path) > 1 \/ found = {}
        THEN [type |-> name, ref |-> NoDefinition]
        ELSE scoped(CHOOSE i \in found : \A j \in found : j <= i)

(* "x in visited" for the set visited, kept as the sequence of the names in
   the order they were added. *)
is_visited(x, visited) == \E i \in 1..Len(visited) : visited[i] = x

(* The loop of _resolve_type without its test of visited, left after one
   expansion more than the table has typedefs. *)
RECURSIVE _resolve_type_revisiting(_, _, _)
_resolve_type_revisiting(t, typedefs, visited) ==
    IF has_key(typedefs, t) /\ Len(visited) <= Cardinality(DOMAIN typedefs)
    THEN _resolve_type_revisiting(typedefs[t.path].type, typedefs, Append(visited, t.path))
    ELSE [t |-> t, visited |-> visited]

(* Lines 221-228: the type at the end of the chain, with the names expanded
   on the way. *)
RECURSIVE _resolve_type(_, _, _)
_resolve_type(t, typedefs, visited) ==
    IF has_key(typedefs, t) /\ ~is_visited(t.path, visited)
    THEN _resolve_type(typedefs[t.path].type, typedefs, Append(visited, t.path))
    ELSE [t |-> t, visited |-> visited]

_normalize_name(name) ==
    IF name.abs THEN "/" \o Join(name.path, "/") ELSE Join(name.path, "/")

(* The loop of _convert_field over the typedefs of the type (lines 132-142);
   a Typedef of parse.py has array_length and no attribute array_lengths. *)
RECURSIVE typedef_chain(_, _, _, _, _, _, _, _)
typedef_chain(current_type, array_lengths, is_sequence, seq_bound, visited, typedefs, idl_map, scope) ==
    IF has_key(typedefs, current_type) /\ current_type.path \notin visited
    THEN IF "array_lengths" \notin DOMAIN typedefs[current_type.path]
         THEN Raise("AttributeError")
         ELSE typedef_chain(
                  _resolve_scoped_type(typedefs[current_type.path].type, scope, idl_map).type,
                  array_lengths \o typedefs[current_type.path].array_lengths,
                  is_sequence \/ typedefs[current_type.path].is_sequence,
                  IF typedefs[current_type.path].is_sequence
                       /\ typedefs[current_type.path].sequence_bound # -1
                  THEN typedefs[current_type.path].sequence_bound
                  ELSE seq_bound,
                  visited \cup {current_type.path}, typedefs, idl_map, scope)
    ELSE Ok([current_type |-> current_type, array_lengths |-> array_lengths,
             is_sequence |-> is_sequence, seq_bound |-> seq_bound], 0, << >>)

(* Lines 147-163: the field of the view, from the end of the chain (c) and the
   definition its type names (r). *)
field_view(field, c, r) ==
    [type |-> IF r.ref.kind = "enum" THEN TypeName(<<"uint32">>) ELSE r.type,
     name |-> field.name,
     isComplex |-> r.ref.kind \in {"struct", "union"},
     enumType |-> IF r.ref.kind = "enum" THEN _normalize_name(r.type) ELSE "",
     isArray |-> IF Len(c.array_lengths) > 0 THEN c.array_lengths ELSE c.is_sequence,
     arrayLength |-> IF Len(c.array_lengths) > 0 THEN c.array_lengths[1] ELSE -1,
     isConstant |-> FALSE,
     value |-> -1,
     arrayUpperBound |-> IF c.is_sequence THEN c.seq_bound ELSE -1]

(* A converter that exports a field with the one dimension of its own
   declaration. *)
_convert_field_first_dimension(field, typedefs, idl_map, scope) ==
    Ok(field_view(field,
                  [current_type |-> field.type,
                   array_lengths |-> IF field.array_length = -1 THEN << >>
                                     ELSE <<field.array_length>>,
                   is_sequence |-> field.is_sequence, seq_bound |-> field.sequence_bound],
                  _resolve_scoped_type(field.type, scope, idl_map)),
       0, << >>)

(* A Field of parse.py has array_length and no attribute array_lengths:
   line 128 raises AttributeError. *)
_convert_field(field, typedefs, idl_map, scope) ==
    LET converted(chain) ==
            IF ~chain.ok THEN chain
            ELSE IF Len(chain.val.array_lengths) > 1 THEN Raise("ValueError")
            ELSE Ok(field_view(field, chain.val,
                               _resolve_scoped_type(chain.val.current_type, scope, idl_map)),
                    0, << >>)
    IN  IF "array_lengths" \notin DOMAIN field THEN Raise("AttributeError")
        ELSE converted(typedef_chain(_resolve_scoped_type(field.type, scope, idl_map).type,
                                     field.array_lengths, field.is_sequence,
                                     field.sequence_bound, {}, typedefs, idl_map, scope))

_convert_constant(const, typedefs, scope, idl_map) ==
    [MessageDefinitionField(
         _resolve_type(_resolve_scoped_type(const.type, scope, idl_map).type, typedefs,
                       << >>).t,
         const.name)
     EXCEPT !.isConstant = TRUE, !.value = const.value]

(* [f(x) for x in xs], ending at the first call that raises. *)
RECURSIVE convert_fields(_, _, _, _)
convert_fields(fields, typedefs, idl_map, scope) ==
    LET rest(first, others) ==
            IF ~others.ok THEN others ELSE Ok(<<first.val>> \o others.val, 0, << >>)
        following(first) ==
            IF ~first.ok THEN first
            ELSE rest(first, convert_fields(Tail(fields), typedefs, idl_map, scope))
    IN  IF Len(fields) = 0 THEN Ok(<< >>, 0, << >>)
        ELSE following(_convert_field(Head(fields), typedefs, idl_map, scope))

is_constant(d) == d.kind = "constant"

(* Lines 89-97: the record of the constants a module holds, when it holds any. *)
constants_record(consts, typedefs, module_scope, idl_map) ==
    IF Len(consts) = 0 THEN << >>
    ELSE <<MessageDefinition(Join(module_scope, "/"),
                             [i \in 1..Len(consts) |->
                                 _convert_constant(consts[i], typedefs, module_scope,
                                                   idl_map)])>>

(* The fields of the record of a union: the discriminator, the cases, the
   default. *)
union_fields(defn) ==
    <<Field(UNION_DISCRIMINATOR_PROPERTY_KEY, defn.switch_type)>>
    \o [i \in 1..Len(defn.cases) |-> defn.cases[i].field]
    \o (IF defn.default.name = "" THEN << >> ELSE <<defn.default>>)

RECURSIVE _process_definition(_, _, _, _)
RECURSIVE process_children(_, _, _, _)

_process_definition(defn, scope, typedefs, idl_map) ==
    LET record(fields) ==
            IF ~fields.ok THEN fields
            ELSE Ok(<<MessageDefinition(Join(scope \o <<defn.name>>, "/"), fields.val)>>,
                    0, << >>)
        with_constants(children) ==
            IF ~children.ok THEN children
            ELSE Ok(constants_record(SelectSeq(defn.definitions, is_constant), typedefs,
                                     scope \o <<defn.name>>, idl_map)
                    \o children.val, 0, << >>)
    IN  CASE defn.kind = "struct" ->
                 record(convert_fields(defn.fields, typedefs, idl_map, scope))
          [] defn.kind = "union" ->
                 record(convert_fields(union_fields(defn), typedefs, idl_map, scope))
          [] defn.kind = "module" ->
                 with_constants(process_children(defn.definitions, scope \o <<defn.name>>,
                                                 typedefs, idl_map))
          [] defn.kind = "enum" ->
                 Ok(<<MessageDefinition(
                        Join(scope \o <<defn.name>>, "/"),
                        [i \in 1..Len(defn.enumerators) |->
                            _convert_constant(defn.enumerators[i], typedefs,
                                              scope \o <<defn.name>>, idl_map)])>>,
                    0, << >>)
          [] defn.kind = "constant" ->
                 Ok(<<MessageDefinition(Join(scope, "/"),
                                        <<_convert_constant(defn, typedefs, scope, idl_map)>>)>>,
                    0, << >>)
          [] OTHER -> Ok(<< >>, 0, << >>)

(* Lines 98-102: the records of the children of a module, in their order. *)
process_children(defs, module_scope, typedefs, idl_map) ==
    LET rest(first, others) ==
            IF ~others.ok THEN others ELSE Ok(first.val \o others.val, 0, << >>)
        following(first) ==
            IF ~first.ok THEN first
            ELSE rest(first, process_children(Tail(defs), module_scope, typedefs, idl_map))
    IN  IF Len(defs) = 0 THEN Ok(<< >>, 0, << >>)
        ELSE IF Head(defs).kind \in {"module", "struct", "union", "enum"}
        THEN following(_process_definition(Head(defs), module_scope, typedefs, idl_map))
        ELSE process_children(Tail(defs), module_scope, typedefs, idl_map)

(* Lines 37-51 for one record: the types as strings with "/", and nanosec of
   Time and Duration renamed.  A name made by "/".join holds no "::" and is
   left as it is by lines 39 and 43. *)
normalized_record(msg) ==
    [msg EXCEPT !.definitions =
        [i \in 1..Len(msg.definitions) |->
            [msg.definitions[i] EXCEPT
                !.type = _normalize_name(msg.definitions[i].type),
                !.name = IF msg.name \in {"builtin_interfaces/msg/Time",
                                          "builtin_interfaces/msg/Duration"}
                            /\ msg.definitions[i].name = "nanosec"
                         THEN "nsec"
                         ELSE msg.definitions[i].name]]]

(***************************************************************************)
(* The definitions parse_ros2idl is given, as the transformer builds them: *)
(* one or two of the definitions of ExportPool at the top level.           *)
(***************************************************************************)
ExportPool ==
    <<Enum("E", <<Constant("A", TypeName(<<"uint32">>), 0),
                  Constant("B", TypeName(<<"uint32">>), 1)>>),
      Struct("Empty", << >>),
      Struct("S", <<Field("x", TypeName(<<"int32">>))>>),
      Module("m", <<Struct("P", << >>),
                    Constant("K", TypeName(<<"int32">>), 3),
                    Typedef("T", TypeName(<<"int32">>)),
                    Enum("F", <<Constant("A", TypeName(<<"uint32">>), 0)>>),
                    Constant("K2", TypeName(<<"T">>), 4)>>),
      Module("builtin_interfaces",
             <<Module("msg", <<Struct("Time", <<Field("sec", TypeName(<<"int32">>)),
                                                Field("nanosec", TypeName(<<"uint32">>))>>)>>)>>),
      Module("test",
             <<Module("msg",
                      <<Module("Enums",
                               <<Enum("TestEnum",
                                      <<Constant("OK", TypeName(<<"uint32">>), 0)>>)>>),
                        Struct("TestMessage",
                               <<Field("error", TypeName(<<"Enums", "TestEnum">>))>>)>>)>>),
      Struct("Line", <<Field("color", TypeName(<<"E">>))>>),
      Module("d", <<[Typedef("Row", TypeName(<<"int32">>)) EXCEPT !.array_length = 3],
                    Struct("M", <<[Field("data", TypeName(<<"Row">>))
                                      EXCEPT !.array_length = 2]>>)>>),
      Constant("K0", TypeName(<<"int32">>), 7),
      Union("U", TypeName(<<"int32">>),
            <<UnionCase(0, Field("a", TypeName(<<"uint8">>)))>>,
            Field("", TypeName(<<"int32">>))),
      Module("other", <<Struct("Stamp", <<Field("nanosec", TypeName(<<"uint32">>))>>)>>),
      Module("n", <<Module("inner", <<Constant("C", TypeName(<<"int32">>), 1)>>),
                    Struct("Q", << >>)>>),
      Module("t", <<[Typedef("Seq", TypeName(<<"int32">>))
                        EXCEPT !.is_sequence = TRUE, !.sequence_bound = 5],
                    Typedef("Alias", TypeName(<<"Seq">>)),
                    [Typedef("Arr", TypeName(<<"uint8">>)) EXCEPT !.array_length = 4],
                    Struct("H", <<Field("items", TypeName(<<"Alias">>)),
                                  [Field("bounded", TypeName(<<"Seq">>))
                                      EXCEPT !.is_sequence = TRUE, !.sequence_bound = 2],
                                  Field("cells", TypeName(<<"Arr">>))>>)>>),
      Module("c", <<Typedef("Loop", TypeName(<<"Loop">>)),
                    Typedef("Ping", TypeName(<<"Pong">>)),
                    Typedef("Pong", TypeName(<<"Ping">>)),
                    Constant("KC", TypeName(<<"Loop">>), 1),
                    Constant("KP", TypeName(<<"Ping">>), 2)>>),
      Struct("Cy", <<Field("v", TypeName(<<"c", "Ping">>)),
                     Field("w", TypeName(<<"c", "Loop">>))>>)>>

ExportSources ==
    {<<ExportPool[i]>> : i \in 1..Len(ExportPool)}
    \cup {<<ExportPool[p[1]], ExportPool[p[2]]>> :
             p \in {q \in (1..Len(ExportPool)) \X (1..Len(ExportPool)) : q[1] # q[2]}}

(***************************************************************************)
(* The sources the transformer is given: every spelling of BUILTIN_TYPE as *)
(* the type of a field, of the elements of a sequence field, of a typedef  *)
(* and of a constant; one to three of five constants and an enum, in any   *)
(* order; an enum of one to three enumerators, each with no value or with  *)
(* @value(0) or @value(5).                                                 *)
(***************************************************************************)
BUILTIN_TYPE ==
    {"unsigned short", "unsigned long", "unsigned long long", "long double", "double",
     "float", "short", "long long", "long", "int8", "uint8", "int16", "uint16", "int32",
     "uint32", "int64", "uint64", "byte", "octet", "wchar", "char", "string", "wstring",
     "boolean"}

TypeSources ==
    UNION {{<<[kind |-> "struct", name |-> "S",
               fields |-> <<[type |-> TypeName(<<t>>), name |-> "f", array_length |-> -1]>>]>>,
            <<[kind |-> "struct", name |-> "S",
               fields |-> <<[type |-> [inner |-> TypeName(<<t>>), bound |-> -1],
                             name |-> "f", array_length |-> -1]>>]>>,
            <<[kind |-> "typedef", name |-> "T", type |-> TypeName(<<t>>),
               array_length |-> 2]>>,
            <<[kind |-> "const", name |-> "K", type |-> TypeName(<<t>>),
               atoms |-> <<[lit |-> TRUE, val |-> 1]>>]>>} : t \in BUILTIN_TYPE}

ConstantPool ==
    <<[kind |-> "const", name |-> "A", type |-> TypeName(<<"short">>),
       atoms |-> <<[lit |-> TRUE, val |-> 1]>>],
      [kind |-> "const", name |-> "B", type |-> TypeName(<<"short">>),
       atoms |-> <<[lit |-> FALSE, val |-> "A"], [lit |-> TRUE, val |-> 2]>>],
      [kind |-> "enum", name |-> "E",
       enumerators |-> <<[name |-> "X", enum_value |-> << >>],
                         [name |-> "Y", enum_value |-> << >>]>>],
      [kind |-> "const", name |-> "C", type |-> TypeName(<<"short">>),
       atoms |-> <<[lit |-> FALSE, val |-> "E::Y"], [lit |-> FALSE, val |-> "A"]>>],
      [kind |-> "const", name |-> "D", type |-> TypeName(<<"short">>),
       atoms |-> <<[lit |-> FALSE, val |-> "Y"]>>],
      [kind |-> "const", name |-> "F", type |-> TypeName(<<"short">>),
       atoms |-> <<[lit |-> FALSE, val |-> "B"], [lit |-> TRUE, val |-> 3],
                   [lit |-> FALSE, val |-> "A"]>>]>>

ConstantSources ==
    {[k \in 1..Len(order) |-> ConstantPool[order[k]]] :
        order \in {o \in UNION {[1..n -> 1..Len(ConstantPool)] : n \in 1..3} :
                      \A x, y \in DOMAIN o : x # y => o[x] # o[y]}}

EnumSources ==
    {<<[kind |-> "enum", name |-> "G",
        enumerators |-> [k \in 1..Len(values) |->
                            [name |-> <<"P", "Q", "R">>[k], enum_value |-> values[k]]]]>> :
        values \in UNION {[1..n -> {<< >>, <<0>>, <<5>>}] : n \in 1..3}}

(* A user of the name X (the field of a struct, the fields of a union, a
   typedef, or a constant with the expression X + 1) and a declaration of X (a
   struct, a union, a typedef or a constant), the one before the other: at the
   top level, in one module a, in two blocks of module a, and the user in a::b
   with the declaration in a. *)
OrderKinds == {"struct", "union", "typedef", "const"}

named(t, name) == [type |-> TypeName(<<t>>), name |-> name, array_length |-> -1]

UserOf(kind) ==
    CASE kind = "struct" -> [kind |-> "struct", name |-> "S", fields |-> <<named("X", "f")>>]
      [] kind = "union" ->
             [kind |-> "union", name |-> "W", switch_type |-> TypeName(<<"long">>),
              cases |-> <<[atoms |-> <<[lit |-> TRUE, val |-> 0]>>,
                           field |-> named("X", "c")]>>,
              default |-> <<named("X", "d")>>]
      [] kind = "typedef" ->
             [kind |-> "typedef", name |-> "T", type |-> TypeName(<<"X">>),
              array_length |-> -1]
      [] OTHER ->
             [kind |-> "const", name |-> "K", type |-> TypeName(<<"long">>),
              atoms |-> <<[lit |-> FALSE, val |-> "X"], [lit |-> TRUE, val |-> 1]>>]

DeclarationOf(kind) ==
    CASE kind = "struct" ->
             [kind |-> "struct", name |-> "X", fields |-> <<named("long", "num")>>]
      [] kind = "union" ->
             [kind |-> "union", name |-> "X", switch_type |-> TypeName(<<"long">>),
              cases |-> <<[atoms |-> <<[lit |-> TRUE, val |-> 0]>>,
                           field |-> named("octet", "a")]>>,
              default |-> << >>]
      [] kind = "typedef" ->
             [kind |-> "typedef", name |-> "X", type |-> TypeName(<<"long">>),
              array_length |-> -1]
      [] OTHER ->
             [kind |-> "const", name |-> "X", type |-> TypeName(<<"long">>),
              atoms |-> <<[lit |-> TRUE, val |-> 2]>>]

module_(name, items) == [kind |-> "module", name |-> name, definitions |-> items]

Layouts == 1..4

Ordered(user, declaration, layout, user_first) ==
    CASE layout = 1 ->
             IF user_first THEN <<user, declaration>> ELSE <<declaration, user>>
      [] layout = 2 ->
             <<module_("a", IF user_first THEN <<user, declaration>>
                            ELSE <<declaration, user>>)>>
      [] layout = 3 ->
             IF user_first THEN <<module_("a", <<user>>), module_("a", <<declaration>>)>>
             ELSE <<module_("a", <<declaration>>), module_("a", <<user>>)>>
      [] OTHER ->
             <<module_("a", IF user_first THEN <<module_("b", <<user>>), declaration>>
                            ELSE <<declaration, module_("b", <<user>>)>>)>>

OrderSources ==
    {Ordered(UserOf(u), DeclarationOf(d), layout, user_first) :
        u \in OrderKinds, d \in OrderKinds, layout \in Layouts, user_first \in BOOLEAN}

(* One to four of six declarations in any order: the constant N in module a
   and in module b, the enumerator N of an enum in module c, and constants
   with the expressions N + 10, N and E::N + 100. *)
ScopedPool ==
    <<module_("a", <<[kind |-> "const", name |-> "N", type |-> TypeName(<<"long">>),
                      atoms |-> <<[lit |-> TRUE, val |-> 2]>>]>>),
      module_("b", <<[kind |-> "const", name |-> "N", type |-> TypeName(<<"long">>),
                      atoms |-> <<[lit |-> TRUE, val |-> 5]>>]>>),
      module_("c", <<[kind |-> "enum", name |-> "E",
                      enumerators |-> <<[name |-> "M", enum_value |-> << >>],
                                        [name |-> "N", enum_value |-> << >>]>>]>>),
      module_("d", <<[kind |-> "const", name |-> "K", type |-> TypeName(<<"long">>),
                      atoms |-> <<[lit |-> FALSE, val |-> "N"],
                                  [lit |-> TRUE, val |-> 10]>>]>>),
      [kind |-> "const", name |-> "J", type |-> TypeName(<<"long">>),
       atoms |-> <<[lit |-> FALSE, val |-> "N"]>>],
      module_("e", <<[kind |-> "const", name |-> "Q", type |-> TypeName(<<"long">>),
                      atoms |-> <<[lit |-> FALSE, val |-> "E::N"],
                                  [lit |-> TRUE, val |-> 100]>>]>>)>>

MaxScoped == 4

ScopedSources ==
    {[k \in 1..Len(order) |-> ScopedPool[order[k]]] :
        order \in {o \in UNION {[1..n -> 1..Len(ScopedPool)] : n \in 1..MaxScoped} :
                      \A x, y \in DOMAIN o : x # y => o[x] # o[y]}}

TransformSources ==
    TypeSources \cup ConstantSources \cup EnumSources \cup OrderSources \cup ScopedSources

(***************************************************************************)
(* The state: one MessageReader (its constructor arguments, its cache and  *)
(* root plan, and the two attributes read_message assigns), the            *)
(* read_message calls running on it, one per thread, and one parse_idl     *)
(* call: the definitions its transformer built (tree), the list it         *)
(* returns (result) and whether resolve_types has run on it.               *)
(***************************************************************************)
VARIABLES definitions, cache, root_info, fmt_prefix, encapsulation_kind, call, parsed

vars == <<definitions, cache, root_info, fmt_prefix, encapsulation_kind, call, parsed>>

Unparsed(tree) == [tree |-> tree, result |-> tree, resolved |-> FALSE]

Threads == {1, 2}

NoResult == [status |-> "none", err |-> "", msg |-> EmptyMap, off |-> 0, log |-> << >>]

Returned(r) ==
    [status |-> "returned", err |-> "", msg |-> r.val, off |-> r.off, log |-> r.log]

Raised(e) == [status |-> "raised", err |-> e, msg |-> EmptyMap, off |-> 0, log |-> << >>]

(* A call: where it is, its buffer, the frame of the root struct, what it returned or
   raised, and prior, the byte order earlier calls had left in the reader when it
   began. *)
Idle(view, result, prior) ==
    [pc |-> "idle", view |-> view, st |-> NoFrame, result |-> result, prior |-> prior]

byte_order_default(kind) == "<"

(* A reader that, once a call has raised, keeps the byte order that call left. *)
byte_order_kept(kind) ==
    IF call[1].result.status = "raised" THEN fmt_prefix
    ELSE IF kind \in LITTLE_ENDIAN_KINDS THEN "<" ELSE ">"

(* Lines 65-66: the struct format prefix of an encapsulation kind. *)
byte_order(kind) == IF kind \in LITTLE_ENDIAN_KINDS THEN "<" ELSE ">"

(* MessageReader.__init__, lines 39-58. *)
Init ==
    /\ definitions \in Constructions
    /\ cache = DeserializationInfoCache(definitions)
    /\ root_info = cache[Schemas[definitions.id].root]
    /\ fmt_prefix = "<"
    /\ encapsulation_kind = CDR_LE
    /\ call = [t \in Threads |-> Idle(<< >>, NoResult, "<")]
    /\ parsed = Unparsed(<< >>)

(* read_message, lines 62-67: the kind and the byte order of this buffer are
   stored in the reader. *)
ReadMessageCall(t, buffer) ==
    /\ call[t].pc = "idle"
    /\ IF Len(buffer) < 2
       THEN /\ call' = [call EXCEPT ![t] = Idle(buffer, Raised("IndexError"), fmt_prefix)]
            /\ UNCHANGED <<fmt_prefix, encapsulation_kind>>
       ELSE IF buffer[2] \notin EncapsulationKind
       THEN /\ call' = [call EXCEPT ![t] = Idle(buffer, Raised("ValueError"), fmt_prefix)]
            /\ UNCHANGED <<fmt_prefix, encapsulation_kind>>
       ELSE /\ encapsulation_kind' = buffer[2]
            /\ fmt_prefix' = byte_order(buffer[2])
            /\ call' = [call EXCEPT ![t] =
                           [pc |-> "_read_struct", view |-> buffer,
                            st |-> [NoFrame EXCEPT !.off = 4], result |-> NoResult,
                            prior |-> fmt_prefix]]
    /\ UNCHANGED <<definitions, cache, root_info>>

ReadMessage(t, buffer) == ReadMessageCall(t, buffer) /\ UNCHANGED parsed

Advance(t, st) ==
    IF st.ok THEN [call[t] EXCEPT !.pc = "loop", !.st = st]
    ELSE Idle(call[t].view, Raised(st.err), call[t].prior)

(* _read_struct of the root, lines 75-83. *)
ReadStructEnter(t) ==
    /\ call[t].pc = "_read_struct"
    /\ call' = [call EXCEPT ![t] =
                   Advance(t, struct_enter(cache, root_info, call[t].view,
                                           call[t].st.off, fmt_prefix, << >>))]
    /\ UNCHANGED <<definitions, cache, root_info, fmt_prefix, encapsulation_kind, parsed>>

(* _read_struct of the root, one iteration of its loop (lines 85-96 or 100-102). *)
ReadStructStep(t) ==
    /\ call[t].pc = "loop"
    /\ ~struct_finished(root_info, call[t].st)
    /\ call' = [call EXCEPT ![t] =
                   Advance(t, struct_step(cache, root_info, call[t].view, call[t].st,
                                          fmt_prefix))]
    /\ UNCHANGED <<definitions, cache, root_info, fmt_prefix, encapsulation_kind, parsed>>

(* _read_struct of the root, lines 97-99 or 103-105, and read_message, line 69. *)
ReadStructLeave(t) ==
    /\ call[t].pc = "loop"
    /\ struct_finished(root_info, call[t].st)
    /\ call' = [call EXCEPT ![t] =
                   Idle(call[t].view, Returned(struct_leave(root_info, call[t].st)),
                        call[t].prior)]
    /\ UNCHANGED <<definitions, cache, root_info, fmt_prefix, encapsulation_kind, parsed>>

(* One thread calls read_message again and again, on any buffer. *)
Next ==
    \/ \E buffer \in AllInputs[definitions] : ReadMessage(1, buffer)
    \/ ReadStructEnter(1)
    \/ ReadStructStep(1)
    \/ ReadStructLeave(1)

Spec == Init /\ [][Next]_vars

(* Two threads call read_message on the buffers a writer of the schema produces. *)
ConcNext ==
    \E t \in Threads :
        \/ \E buffer \in AllWritten[definitions] : ReadMessage(t, buffer)
        \/ ReadStructEnter(t)
        \/ ReadStructStep(t)
        \/ ReadStructLeave(t)

ConcSpec == Init /\ [][ConcNext]_vars

(* One reader used again after calls that raised: parsed.failed says that a
   call of this reader has raised before the current one began. *)
Reused(failed) == [failed |-> failed]

ReuseInit ==
    /\ definitions \in Constructions
    /\ cache = DeserializationInfoCache(definitions)
    /\ root_info = cache[Schemas[definitions.id].root]
    /\ fmt_prefix = "<"
    /\ encapsulation_kind = CDR_LE
    /\ call = [t \in Threads |-> Idle(<< >>, NoResult, "<")]
    /\ parsed = Reused(FALSE)

ReadMessageAgain(buffer) ==
    /\ ReadMessageCall(1, buffer)
    /\ parsed' = Reused(parsed.failed \/ call[1].result.status = "raised")

ReuseNext ==
    \/ \E buffer \in AllInputs[definitions] : ReadMessageAgain(buffer)
    \/ ReadStructEnter(1)
    \/ ReadStructStep(1)
    \/ ReadStructLeave(1)

ReuseSpec == ReuseInit /\ [][ReuseNext]_vars

(* parse_idl, lines 467-473, on each of the sources: the reader is not used. *)
ResolveInit ==
    /\ definitions = [id |-> 1, framing |-> "plain"]
    /\ cache = DeserializationInfoCache(definitions)
    /\ root_info = cache[Schemas[definitions.id].root]
    /\ fmt_prefix = "<"
    /\ encapsulation_kind = CDR_LE
    /\ call = [t \in Threads |-> Idle(<< >>, NoResult, "<")]
    /\ parsed \in {Unparsed(tree) : tree \in Sources}

ResolveTypes ==
    /\ ~parsed.resolved
    /\ parsed' = [parsed EXCEPT !.result = resolve_types(parsed.tree), !.resolved = TRUE]
    /\ UNCHANGED <<definitions, cache, root_info, fmt_prefix, encapsulation_kind, call>>

ResolveNext == ResolveTypes

ResolveSpec == ResolveInit /\ [][ResolveNext]_vars

(***************************************************************************)
(* parse_ros2idl: a call is at its start, in the loop over the definitions *)
(* (i is the index of the next one), and then has returned message_defs or *)
(* raised err.                                                             *)
(***************************************************************************)
Exporting(tree) ==
    [tree |-> tree, result |-> tree, resolved |-> FALSE, pc |-> "start", i |-> 1,
     message_defs |-> << >>, err |-> ""]

ExportInit ==
    /\ definitions = [id |-> 1, framing |-> "plain"]
    /\ cache = DeserializationInfoCache(definitions)
    /\ root_info = cache[Schemas[definitions.id].root]
    /\ fmt_prefix = "<"
    /\ encapsulation_kind = CDR_LE
    /\ call = [t \in Threads |-> Idle(<< >>, NoResult, "<")]
    /\ parsed \in {Exporting(tree) : tree \in ExportSources}

(* Lines 29-33. *)
ParseRos2idl ==
    /\ parsed.pc = "start"
    /\ parsed' = [parsed EXCEPT !.result = resolve_types(parsed.tree), !.resolved = TRUE,
                                !.pc = "process"]
    /\ UNCHANGED <<definitions, cache, root_info, fmt_prefix, encapsulation_kind, call>>

(* Lines 34-35, one definition. *)
ProcessDefinition ==
    LET extended(records) ==
            IF records.ok
            THEN [parsed EXCEPT !.message_defs = @ \o records.val, !.i = @ + 1]
            ELSE [parsed EXCEPT !.pc = "raised", !.err = records.err]
    IN  /\ parsed.pc = "process"
        /\ parsed.i <= Len(parsed.result)
        /\ parsed' = extended(_process_definition(parsed.result[parsed.i], << >>,
                                                  _collect_typedefs(parsed.result, << >>),
                                                  build_map(parsed.result, << >>)))
        /\ UNCHANGED <<definitions, cache, root_info, fmt_prefix, encapsulation_kind, call>>

(* Lines 37-53. *)
NormalizeNames ==
    /\ parsed.pc = "process"
    /\ parsed.i > Len(parsed.result)
    /\ parsed' = [parsed EXCEPT
                     !.message_defs = [k \in 1..Len(@) |-> normalized_record(@[k])],
                     !.pc = "returned"]
    /\ UNCHANGED <<definitions, cache, root_info, fmt_prefix, encapsulation_kind, call>>

ExportNext == ParseRos2idl \/ ProcessDefinition \/ NormalizeNames

ExportSpec == ExportInit /\ [][ExportNext]_vars

(* A call of parse_ros2idl runs to its end: no step of it waits for anything. *)
ExportFairSpec == ExportSpec /\ WF_vars(ExportNext)

(***************************************************************************)
(* headers.py on its own: write_member_header at the offset start of a     *)
(* buffer of zeros, then read_member_header at the same offset.            *)
(***************************************************************************)
MaxStart == 9

HeaderIds == {0, 1, 2, 255, 256, 16128, 16384, 16385, 70000}

HeaderSizes == {0, 1, 4, 255, 256, 65535, 65536, 65540}

HeaderInputs ==
    [member_id : HeaderIds, object_size : HeaderSizes, must_understand : BOOLEAN,
     start : 0..MaxStart, fmt_prefix : {"<", ">"}]

Heading(input) ==
    [input |-> input, buffer |-> Zeros(input.start), end |-> -1,
     read |-> Raise(""), pc |-> "start"]

HeaderInit ==
    /\ definitions = [id |-> 1, framing |-> "plain"]
    /\ cache = DeserializationInfoCache(definitions)
    /\ root_info = cache[Schemas[definitions.id].root]
    /\ fmt_prefix = "<"
    /\ encapsulation_kind = CDR_LE
    /\ call = [t \in Threads |-> Idle(<< >>, NoResult, "<")]
    /\ parsed \in {Heading(input) : input \in HeaderInputs}

(* write_member_header, lines 46-58; it returns the offset after the header. *)
WriteMemberHeader ==
    LET written(b) == [parsed EXCEPT !.buffer = b, !.end = Len(b), !.pc = "written"]
    IN  /\ parsed.pc = "start"
        /\ parsed' = written(write_member_header(parsed.buffer, parsed.input.fmt_prefix,
                                                 parsed.input.member_id,
                                                 parsed.input.object_size,
                                                 parsed.input.must_understand))
        /\ UNCHANGED <<definitions, cache, root_info, fmt_prefix, encapsulation_kind, call>>

(* read_member_header, lines 25-43, at the offset the writer was given. *)
ReadMemberHeader ==
    /\ parsed.pc = "written"
    /\ parsed' = [parsed EXCEPT
                     !.read = read_member_header(parsed.buffer, parsed.input.start,
                                                 parsed.input.fmt_prefix),
                     !.pc = "read"]
    /\ UNCHANGED <<definitions, cache, root_info, fmt_prefix, encapsulation_kind, call>>

HeaderNext == WriteMemberHeader \/ ReadMemberHeader

HeaderSpec == HeaderInit /\ [][HeaderNext]_vars

(***************************************************************************)
(* parse_idl on a source: the transformer builds the definitions one after *)
(* the other (i is the index of the next one), then resolve_types runs on  *)
(* the list and it is returned; a callback that raises ends the call.      *)
(***************************************************************************)
Transforming(source) ==
    [source |-> source, i |-> 1, _constants |-> EmptyMap, result |-> << >>,
     pc |-> "transform", err |-> ""]

TransformInit ==
    /\ definitions = [id |-> 1, framing |-> "plain"]
    /\ cache = DeserializationInfoCache(definitions)
    /\ root_info = cache[Schemas[definitions.id].root]
    /\ fmt_prefix = "<"
    /\ encapsulation_kind = CDR_LE
    /\ call = [t \in Threads |-> Idle(<< >>, NoResult, "<")]
    /\ parsed \in {Transforming(source) : source \in TransformSources}

(* Line 470, one definition. *)
TransformDefinition ==
    LET transformed(r) ==
            IF r.ok
            THEN [parsed EXCEPT !.result = Append(@, r.val.node),
                                !._constants = r.val._constants, !.i = @ + 1]
            ELSE [parsed EXCEPT !.pc = "raised", !.err = r.err]
    IN  /\ parsed.pc = "transform"
        /\ parsed.i <= Len(parsed.source)
        /\ parsed' = transformed(definition(parsed.source[parsed.i], parsed._constants))
        /\ UNCHANGED <<definitions, cache, root_info, fmt_prefix, encapsulation_kind, call>>

(* Lines 471-472. *)
ResolveTransformed ==
    /\ parsed.pc = "transform"
    /\ parsed.i > Len(parsed.source)
    /\ parsed' = [parsed EXCEPT !.result = resolve_types(parsed.result), !.pc = "returned"]
    /\ UNCHANGED <<definitions, cache, root_info, fmt_prefix, encapsulation_kind, call>>

TransformNext == TransformDefinition \/ ResolveTransformed

TransformSpec == TransformInit /\ [][TransformNext]_vars

(***************************************************************************)
(* The claims.  A call has finished when it is idle with a result.         *)
(***************************************************************************)
Finished(t) == call[t].pc = "idle" /\ call[t].result.status # "none"

(* The bytes write_message produces for the value v of the reader's root struct. *)
Message(v, k) == write_message(cache, root_info, v, k)

(* The byte order section 6 gives the encapsulation kind in byte 1: the
   little-endian kinds are the odd ones. *)
ExpectedOrder(view) == IF view[2] % 2 = 1 THEN "<" ELSE ">"

(* The result of read_message on the buffer alone, decoded in its own byte order. *)
Alone(view) ==
    _read_struct(cache, root_info, view, 4, ExpectedOrder(view), << >>)

SameOutcome(result, r) ==
    IF r.ok
    THEN result.status = "returned" /\ result.msg = r.val
    ELSE result.status = "raised" /\ result.err = r.err

(* C1: read_message applied to the bytes write_message produces for a value v
   of the root struct returns a map equal to v, for every encapsulation kind
   (CDR_LE, CDR_BE, the delimited kinds and the parameter-list kinds). *)
C1_Roundtrip ==
    \A v \in Values[definitions.id], k \in KindsOf(definitions.framing) :
        (Message(v, k).ok /\ Finished(1) /\ call[1].view = Message(v, k).buf)
            => (call[1].result.status = "returned" /\ call[1].result.msg = v)

(* C2: two read_message calls running concurrently on one reader, each on its
   own buffer, return what each returns when it runs alone, also when the
   buffers differ in byte order. *)
C2_ConcurrentAsSequential ==
    \A t \in Threads :
        (Finished(t) /\ call[t].view \in AllWritten[definitions])
            => SameOutcome(call[t].result, Alone(call[t].view))

(* C3: in parameter-list framing the member loop ends at the sentinel header
   and the aggregate decoded so far is returned: every message the writer
   produces is read to its sentinel and returned, and the PL_CDR2_LE message
   for struct A { int32 num; } with num = 42 is read back as {num: 42}. *)
C3_SentinelEndsLoop ==
    /\ \A v \in Values[definitions.id], k \in KindsOf(definitions.framing) :
           (definitions.framing = "pl" /\ Message(v, k).ok /\ Finished(1)
                /\ call[1].view = Message(v, k).buf)
               => call[1].result.status = "returned"
    /\ (definitions = [id |-> 1, framing |-> "pl"] /\ Finished(1)
            /\ call[1].view = Message([num |-> 42], PL_CDR2_LE).buf)
           => (call[1].result.status = "returned" /\ call[1].result.msg = [num |-> 42])

(* C4: in parameter-list framing a member of unknown id is skipped by the size
   its header gives and adds no key, and the known members after it are still
   decoded: the message with member 2 (unknown) before member 1 (num = 42) is
   read as {num: 42}. *)
C4_UnknownMemberSkipped ==
    (definitions = [id |-> 1, framing |-> "pl"] /\ Finished(1)
         /\ call[1].view = UnknownMemberBuffer)
        => (call[1].result.status = "returned" /\ call[1].result.msg = [num |-> 42])

(* C5: read_message raises whenever the buffer ends before the value is
   complete: a message with its last c >= 1 bytes missing is never returned
   as a map. *)
C5_ShortBufferRaises ==
    \A b \in AllWritten[definitions], c \in 1..MaxCut :
        (c <= Len(b) /\ Cut(b, c) \notin AllWritten[definitions] /\ Finished(1)
             /\ call[1].view = Cut(b, c))
            => call[1].result.status = "raised"

(* The strings of a value of the schema, and the bound of its string field. *)
StringsOf(v) ==
    CASE definitions.id \in {4, 5} -> {v.name}
      [] definitions.id \in {6, 7} -> {v.names[i] : i \in 1..Len(v.names)}
      [] OTHER -> {}

Bound == root_info.fields[1].string_upper_bound

(* The bytes a writer that does not know the bounds produces for v. *)
UnboundedMessage(v, k) ==
    write_message(Unbounded(cache), Unbounded(cache)[Schemas[definitions.id].root], v, k)

(* The result of read_message on the buffer for a reader of the same schema
   without string bounds. *)
AloneUnbounded(view) ==
    _read_struct(Unbounded(cache), Unbounded(cache)[Schemas[definitions.id].root],
                 view, 4, ExpectedOrder(view), << >>)

(* C6: the reader fails for every decoded string longer than the field's
   string_upper_bound and accepts every string within it, for a scalar string
   (schemas 4, 5), an element of a sequence of strings (6) and an element of an
   array of strings (7): no returned map holds a string over the bound; a
   message with a string over the bound raises ValueError; a message whose
   strings are within the bound ends as it does for a reader without bounds,
   and is returned whole where members are decoded (plain and delimited
   framing). *)
C6_StringBoundEnforced ==
    definitions.id \in 4..7 =>
        /\ (Finished(1) /\ call[1].result.status = "returned")
               => \A s \in StringsOf(call[1].result.msg) : Len(s) <= Bound
        /\ \A v \in Values[definitions.id], k \in KindsOf(definitions.framing) :
               (Finished(1) /\ call[1].view = UnboundedMessage(v, k).buf)
                   => IF \E s \in StringsOf(v) : Len(s) > Bound
                      THEN call[1].result.status = "raised"
                           /\ call[1].result.err = "ValueError"
                      ELSE /\ SameOutcome(call[1].result, AloneUnbounded(call[1].view))
                           /\ definitions.framing # "pl"
                                  => (call[1].result.status = "returned"
                                         /\ call[1].result.msg = v)

(* A sequence of strings with an element over the bound was refused. *)
C6_Witness ==
    /\ definitions = [id |-> 6, framing |-> "plain"]
    /\ Finished(1)
    /\ call[1].view = UnboundedMessage([names |-> << <<104>>, <<104, 101, 121>> >>],
                                       CDR_LE).buf
    /\ call[1].result.status = "raised"
    /\ call[1].result.err = "ValueError"

(* The reads of the calls in progress and of the calls that returned. *)
ReadsOf(t) == call[t].st.log \o call[t].result.log

Aligned(e) ==
    /\ (e.off - 4) % e.width = 0
    /\ e.pad >= 0
    /\ e.pad < e.width
    /\ \A p \in 0..(e.pad - 1) : (e.off - e.pad + p - 4) % e.width # 0

(* C7: every primitive the reader decodes (a scalar, a 4-byte length prefix,
   the first element of a primitive array or sequence) is read at an offset o
   with (o - 4) mod width = 0, after the smallest padding that achieves it,
   which is less than width. *)
C7_PrimitivesAligned ==
    \A t \in Threads : \A i \in 1..Len(ReadsOf(t)) : Aligned(ReadsOf(t)[i])

(* A uint64 was read after 7 bytes of padding. *)
C7_Witness ==
    /\ Finished(1)
    /\ call[1].result.status = "returned"
    /\ \E i \in 1..Len(call[1].result.log) :
           call[1].result.log[i].width = 8 /\ call[1].result.log[i].pad = 7

(* C8: every call decodes in the byte order of byte 1 of its own buffer,
   little-endian exactly for a little-endian kind, whatever order earlier calls
   left in the reader: while the call runs the reader holds that order, and the
   call ends as the decoding of its buffer in that order does. *)
C8_ByteOrderPerCall ==
    /\ call[1].pc # "idle" => fmt_prefix = ExpectedOrder(call[1].view)
    /\ (Finished(1) /\ Len(call[1].view) >= 2 /\ call[1].view[2] \in EncapsulationKind)
           => SameOutcome(call[1].result, Alone(call[1].view))
    /\ (definitions = [id |-> 1, framing |-> "plain"] /\ Finished(1)
            /\ call[1].view \in {<<0, 0, 0, 0, 0, 0, 0, 42>>, <<0, 1, 0, 0, 42, 0, 0, 0>>})
           => call[1].result.msg = [num |-> 42]

(* A little-endian message was decoded by a reader that an earlier call had
   left in big-endian order. *)
C8_Witness ==
    /\ definitions = [id |-> 1, framing |-> "plain"]
    /\ Finished(1)
    /\ call[1].prior = ">"
    /\ call[1].view = <<0, 1, 0, 0, 42, 0, 0, 0>>
    /\ call[1].result.status = "returned"
    /\ call[1].result.msg = [num |-> 42]

(* The union a returned map of schemas 10 and 11 holds, and its definition. *)
UnionOf(msg) == msg[root_info.fields[1].name]

UnionDefinition == cache[root_info.fields[1].type_info].definition

(* The names of the case fields a discriminator selects: the matching cases,
   else the default when there is one. *)
Selected(disc) ==
    LET matching == {UnionDefinition.cases[i].field.name :
                        i \in {j \in 1..Len(UnionDefinition.cases) :
                                  UnionDefinition.cases[j].value = disc}}
    IN  IF matching # {} THEN matching
        ELSE IF UnionDefinition.default.name # "" THEN {UnionDefinition.default.name}
        ELSE {}

(* C9: every map returned for a union holds $discriminator with the decoded
   discriminator, the field of the matching case (the default field when no
   case matches and there is a default), and no other case field; a written
   union is returned with its discriminator and its case value. *)
C9_UnionMap ==
    definitions.id \in {10, 11} =>
        /\ (Finished(1) /\ call[1].result.status = "returned")
               => /\ UNION_DISCRIMINATOR_PROPERTY_KEY \in DOMAIN UnionOf(call[1].result.msg)
                  /\ DOMAIN UnionOf(call[1].result.msg) =
                         {UNION_DISCRIMINATOR_PROPERTY_KEY}
                         \cup Selected(UnionOf(call[1].result.msg)
                                           [UNION_DISCRIMINATOR_PROPERTY_KEY])
        /\ \A v \in Values[definitions.id], k \in KindsOf(definitions.framing) :
               (Finished(1) /\ call[1].result.status = "returned"
                    /\ call[1].view = Message(v, k).buf)
                   => UnionOf(call[1].result.msg) = UnionOf(v)

(* A union whose discriminator matches no case was returned with its default
   field. *)
C9_Witness ==
    /\ definitions = [id |-> 10, framing |-> "plain"]
    /\ Finished(1)
    /\ call[1].result.status = "returned"
    /\ UnionOf(call[1].result.msg) = Put(D(2), "c", 3)

(* The qualified names of the types a source declares: structs, unions,
   typedefs and enums. *)
RECURSIVE DeclaredTypes(_, _)
DeclaredTypes(defs, scope) ==
    UNION {IF defs[i].kind \in {"struct", "union", "typedef", "enum"}
           THEN {scope \o <<defs[i].name>>}
           ELSE IF defs[i].kind = "module"
           THEN DeclaredTypes(defs[i].definitions, scope \o <<defs[i].name>>)
           ELSE {} : i \in 1..Len(defs)}

(* The fields of the structs and of the unions (cases and default) of a list of
   definitions, each with the scope and the name of its owner. *)
RECURSIVE FieldsIn(_, _)
FieldsIn(defs, scope) ==
    UNION {CASE defs[i].kind = "struct" ->
                    {[scope |-> scope, owner |-> defs[i].name, field |-> defs[i].fields[j]] :
                        j \in 1..Len(defs[i].fields)}
             [] defs[i].kind = "union" ->
                    {[scope |-> scope, owner |-> defs[i].name,
                      field |-> defs[i].cases[j].field] : j \in 1..Len(defs[i].cases)}
                    \cup (IF defs[i].default.name = "" THEN {}
                          ELSE {[scope |-> scope, owner |-> defs[i].name,
                                 field |-> defs[i].default]})
             [] defs[i].kind = "module" ->
                    FieldsIn(defs[i].definitions, scope \o <<defs[i].name>>)
             [] OTHER -> {} : i \in 1..Len(defs)}

(* The levels of the scope at which the unqualified name is declared. *)
DeclaredAt(path, scope) ==
    {i \in 0..Len(scope) :
        (SubSeq(scope, 1, i) \o path) \in DeclaredTypes(parsed.tree, << >>)}

(* C10: an unqualified type name X of a field declared at scope [s1..sn] is
   rewritten to the first of s1::..::sn::X, ..., s1::X, X that names a
   declared type: the innermost declaration wins. *)
C10_InnermostDeclaration ==
    parsed.resolved =>
        \A w \in FieldsIn(parsed.tree, << >>) :
            (~w.field.type.abs /\ Len(w.field.type.path) = 1
                 /\ DeclaredAt(w.field.type.path, w.scope) # {})
                => \E r \in FieldsIn(parsed.result, << >>) :
                       /\ r.scope = w.scope
                       /\ r.owner = w.owner
                       /\ r.field.name = w.field.name
                       /\ r.field.type =
                              TypeName(SubSeq(w.scope, 1,
                                              CHOOSE i \in DeclaredAt(w.field.type.path, w.scope) :
                                                  \A j \in DeclaredAt(w.field.type.path, w.scope) :
                                                      j <= i)
                                       \o w.field.type.path)

(* The qualified names of the enums a source declares. *)
RECURSIVE EnumsIn(_, _)
EnumsIn(defs, scope) ==
    UNION {IF defs[i].kind = "enum" THEN {scope \o <<defs[i].name>>}
           ELSE IF defs[i].kind = "module"
           THEN EnumsIn(defs[i].definitions, scope \o <<defs[i].name>>)
           ELSE {} : i \in 1..Len(defs)}

(* The switch types of the unions of a list of definitions, each with the scope
   and the name of its union. *)
RECURSIVE SwitchesIn(_, _)
SwitchesIn(defs, scope) ==
    UNION {IF defs[i].kind = "union"
           THEN {[scope |-> scope, owner |-> defs[i].name, type |-> defs[i].switch_type]}
           ELSE IF defs[i].kind = "module"
           THEN SwitchesIn(defs[i].definitions, scope \o <<defs[i].name>>)
           ELSE {} : i \in 1..Len(defs)}

(* The fully-qualified name of the innermost declaration of the unqualified
   name, seen from the scope. *)
Qualified(path, scope) ==
    TypeName(SubSeq(scope, 1, CHOOSE i \in DeclaredAt(path, scope) :
                                  \A j \in DeclaredAt(path, scope) : j <= i)
             \o path)

NamesEnum(t, scope) ==
    /\ ~t.abs
    /\ Len(t.path) = 1
    /\ DeclaredAt(t.path, scope) # {}
    /\ Qualified(t.path, scope).path \in EnumsIn(parsed.tree, << >>)

(* C11: pass 1 indexes enums too: an unqualified field type or union switch
   type that names an enum declared in an enclosing module (or at the top
   level) is rewritten to the enum's fully-qualified name. *)
C11_EnumsIndexed ==
    parsed.resolved =>
        /\ \A w \in FieldsIn(parsed.tree, << >>) :
               NamesEnum(w.field.type, w.scope)
                   => \E r \in FieldsIn(parsed.result, << >>) :
                          /\ r.scope = w.scope
                          /\ r.owner = w.owner
                          /\ r.field.name = w.field.name
                          /\ r.field.type = Qualified(w.field.type.path, w.scope)
        /\ \A w \in SwitchesIn(parsed.tree, << >>) :
               NamesEnum(w.type, w.scope)
                   => \E r \in SwitchesIn(parsed.result, << >>) :
                          /\ r.scope = w.scope
                          /\ r.owner = w.owner
                          /\ r.type = Qualified(w.type.path, w.scope)

(* The types the field has after parse_idl (one: owners and field names are
   distinct in a scope). *)
TypesAfter(w) ==
    {r.field.type : r \in {x \in FieldsIn(parsed.result, << >>) :
                              /\ x.scope = w.scope
                              /\ x.owner = w.owner
                              /\ x.field.name = w.field.name}}

(* C12: after parse_idl every struct field, union case field and union default
   field whose written type names a declared type (unqualified, relative
   scoped, or by its full path) has the fully-qualified name of that type as
   its type, and every other field type is left as written. *)
C12_FieldTypesQualified ==
    parsed.resolved =>
        \A w \in FieldsIn(parsed.tree, << >>) :
            TypesAfter(w) =
                IF DeclaredAt(w.field.type.path, w.scope) # {}
                THEN {Qualified(w.field.type.path, w.scope)}
                ELSE {w.field.type}

(* The call of parse_ros2idl has ended. *)
Exported == parsed.pc \in {"returned", "raised"}

(* C13: parse_ros2idl exports a field whose type names an enum, by its
   unqualified name or by a relative scoped name, as type uint32 with enumType
   the slash-separated full path of the enum
   (Enums::TestEnum inside test::msg gives test/msg/Enums/TestEnum). *)
C13_EnumFieldExported ==
    Exported =>
        \A w \in FieldsIn(parsed.tree, << >>) :
            (DeclaredAt(w.field.type.path, w.scope) # {}
                 /\ Qualified(w.field.type.path, w.scope).path \in EnumsIn(parsed.tree, << >>))
                => /\ parsed.pc = "returned"
                   /\ \E k \in 1..Len(parsed.message_defs) :
                          /\ parsed.message_defs[k].name = Join(w.scope \o <<w.owner>>, "/")
                          /\ \E j \in 1..Len(parsed.message_defs[k].definitions) :
                                 /\ parsed.message_defs[k].definitions[j].name = w.field.name
                                 /\ parsed.message_defs[k].definitions[j].type = "uint32"
                                 /\ parsed.message_defs[k].definitions[j].enumType =
                                        Join(Qualified(w.field.type.path, w.scope).path, "/")

(* The canonical tag of a spelling of BUILTIN_TYPE, by the table of section 4.2;
   the spellings that are canonical tags stand for themselves. *)
CanonicalTag(t) ==
    CASE t = "short" -> "int16"
      [] t = "unsigned short" -> "uint16"
      [] t = "long" -> "int32"
      [] t = "unsigned long" -> "uint32"
      [] t = "long long" -> "int64"
      [] t = "unsigned long long" -> "uint64"
      [] t = "float" -> "float32"
      [] t \in {"double", "long double"} -> "float64"
      [] t \in {"octet", "byte", "char"} -> "uint8"
      [] t = "wchar" -> "uint16"
      [] t = "boolean" -> "bool"
      [] OTHER -> t

CanonicalTags ==
    {"bool", "int8", "uint8", "int16", "uint16", "int32", "uint32", "int64", "uint64",
     "float32", "float64", "string", "wstring"}

(* The type a definition of TypeSources is written with, and the type of the
   node built for it. *)
WrittenSpelling(items) ==
    IF items.kind # "struct" THEN items.type.path[1]
    ELSE IF "inner" \in DOMAIN items.fields[1].type THEN items.fields[1].type.inner.path[1]
    ELSE items.fields[1].type.path[1]

BuiltType(node) == IF node.kind = "struct" THEN node.fields[1].type ELSE node.type

(* C14: every primitive spelling is mapped at AST build to its canonical tag by
   the table (short to int16, ..., octet, byte and char to uint8, wchar to
   uint16, boolean to bool): the field, typedef and constant types of the list
   parse_idl returns are canonical tags, the ones the table gives. *)
C14_PrimitivesNormalized ==
    (parsed.pc = "returned" /\ parsed.source \in TypeSources) =>
        /\ BuiltType(parsed.result[1]) =
               TypeName(<<CanonicalTag(WrittenSpelling(parsed.source[1]))>>)
        /\ BuiltType(parsed.result[1]).path[1] \in CanonicalTags

(* The names a built definition declares for constant expressions, and the
   value it gives a name. *)
NamesOf(node) ==
    IF node.kind = "constant" THEN {node.name}
    ELSE IF node.kind = "enum"
    THEN UNION {{node.enumerators[m].name, node.name \o "::" \o node.enumerators[m].name} :
                   m \in 1..Len(node.enumerators)}
    ELSE {}

ValueIn(node, name) ==
    IF node.kind = "constant" THEN node.value
    ELSE node.enumerators[CHOOSE m \in 1..Len(node.enumerators) :
                              name \in {node.enumerators[m].name,
                                        node.name \o "::" \o node.enumerators[m].name}].value

(* The definitions before number k of the source that declare the name. *)
Earlier(name, k) == {j \in 1..(k - 1) : name \in NamesOf(parsed.result[j])}

AtomValue(atom, k) ==
    IF atom.lit THEN atom.val
    ELSE ValueIn(parsed.result[CHOOSE j \in Earlier(atom.val, k) :
                                   \A x \in Earlier(atom.val, k) : x <= j], atom.val)

RECURSIVE SumOfAtoms(_, _)
SumOfAtoms(atoms, k) ==
    IF Len(atoms) = 0 THEN 0
    ELSE AtomValue(Head(atoms), k) + SumOfAtoms(Tail(atoms), k)

Undeclared(k) ==
    \E a \in 1..Len(parsed.source[k].atoms) :
        /\ ~parsed.source[k].atoms[a].lit
        /\ Earlier(parsed.source[k].atoms[a].val, k) = {}

(* C15: constants are evaluated in declaration order: a constant built by the
   transformer has the sum of its atoms as its value, a name atom taking the
   value of the constant or enumerator (Enum::NAME or NAME) declared earlier;
   parse_idl fails with the unknown-identifier error (ValueError) exactly at a
   constant with an atom that names nothing declared earlier. *)
C15_ConstantsInOrder ==
    parsed.source \in ConstantSources =>
        \A k \in 1..Len(parsed.source) :
            parsed.source[k].kind = "const" =>
                /\ k < parsed.i =>
                       /\ ~Undeclared(k)
                       /\ parsed.result[k].value = SumOfAtoms(parsed.source[k].atoms, k)
                /\ (k = parsed.i /\ parsed.pc = "raised") =>
                       (Undeclared(k) /\ parsed.err = "ValueError")

(* C = E::Y + A was evaluated to 2 after the enum E and the constant A. *)
C15_Witness ==
    /\ parsed.source = <<ConstantPool[3], ConstantPool[1], ConstantPool[4]>>
    /\ parsed.pc = "returned"
    /\ parsed.result[3].value = 2

(* The value the rule gives enumerator m of a parsed enum: its explicit value,
   else 0 for the first and the value of the one before plus 1 for the others. *)
RECURSIVE EnumeratorValue(_, _)
EnumeratorValue(enumerators, m) ==
    IF Len(enumerators[m].enum_value) > 0 THEN enumerators[m].enum_value[1]
    ELSE IF m = 1 THEN 0
    ELSE EnumeratorValue(enumerators, m - 1) + 1

(* C16: the enumerators of an enum get their values in declaration order, the
   first 0 unless it has an explicit value, one with an explicit value N that
   value, one without the value of the one before plus 1, and each is a
   constant of type uint32: parse_idl builds every enum, with these values. *)
C16_EnumeratorValues ==
    \A k \in 1..Len(parsed.source) :
        parsed.source[k].kind = "enum" =>
            /\ ~(parsed.pc = "raised" /\ parsed.i = k)
            /\ k < parsed.i =>
                   /\ Len(parsed.result[k].enumerators) = Len(parsed.source[k].enumerators)
                   /\ \A m \in 1..Len(parsed.source[k].enumerators) :
                          /\ parsed.result[k].enumerators[m].name =
                                 parsed.source[k].enumerators[m].name
                          /\ parsed.result[k].enumerators[m].value =
                                 EnumeratorValue(parsed.source[k].enumerators, m)
                          /\ parsed.result[k].enumerators[m].type = TypeName(<<"uint32">>)
                          /\ parsed.result[k].enumerators[m].kind = "constant"

(* The array dimensions the typedefs on the chain of a written type contribute,
   the type being looked up from the scope. *)
RECURSIVE ChainDimensions(_, _, _)
ChainDimensions(t, scope, visited) ==
    IF DeclaredAt(t.path, scope) = {} \/ Qualified(t.path, scope).path \in visited
    THEN 0
    ELSE IF build_map(parsed.tree, << >>)[Qualified(t.path, scope).path].kind # "typedef"
    THEN 0
    ELSE (IF build_map(parsed.tree, << >>)[Qualified(t.path, scope).path].array_length # -1
          THEN 1 ELSE 0)
         + ChainDimensions(build_map(parsed.tree, << >>)[Qualified(t.path, scope).path].type,
                           SubSeq(Qualified(t.path, scope).path, 1,
                                  Len(Qualified(t.path, scope).path) - 1),
                           visited \cup {Qualified(t.path, scope).path})

Dimensions(w) ==
    (IF w.field.array_length # -1 THEN 1 ELSE 0) + ChainDimensions(w.field.type, w.scope, {})

(* C17: parse_ros2idl fails with an error for every field whose array
   dimensions, its own plus those of the typedefs on its type chain, number
   more than one, and never exports such a field. *)
C17_MultiDimensionalRejected ==
    Exported =>
        \A w \in FieldsIn(parsed.tree, << >>) :
            Dimensions(w) > 1 =>
                /\ parsed.pc = "raised"
                /\ parsed.err \in {"ValueError", "AttributeError"}
                /\ \A k \in 1..Len(parsed.message_defs) :
                       parsed.message_defs[k].name # Join(w.scope \o <<w.owner>>, "/")

(* The call ended with an error for struct M { Row data[2]; } with
   typedef int32 Row[3]. *)
C17_Witness ==
    /\ parsed.tree = <<ExportPool[8]>>
    /\ \E w \in FieldsIn(parsed.tree, << >>) : Dimensions(w) = 2
    /\ parsed.pc = "raised"

(* The names of the constants a list of definitions holds, in their order. *)
RECURSIVE ConstantNames(_)
ConstantNames(defs) ==
    IF Len(defs) = 0 THEN << >>
    ELSE (IF Head(defs).kind = "constant" THEN <<Head(defs).name>> ELSE << >>)
         \o ConstantNames(Tail(defs))

(* The records section 4.3 gives a list of definitions, each as its name and
   the names of its fields: one per struct, union and enum, one per module
   that holds constants, before the records of the module's other children,
   in declaration order, depth first; none for a typedef. *)
RECURSIVE ExpectedRecords(_, _)
ExpectedRecords(defs, scope) ==
    IF Len(defs) = 0 THEN << >>
    ELSE (CASE Head(defs).kind = "struct" ->
                   <<[name |-> Join(scope \o <<Head(defs).name>>, "/"),
                      fields |-> [j \in 1..Len(Head(defs).fields) |->
                                     Head(defs).fields[j].name]]>>
            [] Head(defs).kind = "union" ->
                   <<[name |-> Join(scope \o <<Head(defs).name>>, "/"),
                      fields |-> [j \in 1..Len(union_fields(Head(defs))) |->
                                     union_fields(Head(defs))[j].name]]>>
            [] Head(defs).kind = "enum" ->
                   <<[name |-> Join(scope \o <<Head(defs).name>>, "/"),
                      fields |-> [j \in 1..Len(Head(defs).enumerators) |->
                                     Head(defs).enumerators[j].name]]>>
            [] Head(defs).kind = "module" ->
                   (IF Len(ConstantNames(Head(defs).definitions)) > 0
                    THEN <<[name |-> Join(scope \o <<Head(defs).name>>, "/"),
                            fields |-> ConstantNames(Head(defs).definitions)]>>
                    ELSE << >>)
                   \o ExpectedRecords(Head(defs).definitions, scope \o <<Head(defs).name>>)
            [] OTHER -> << >>)
         \o ExpectedRecords(Tail(defs), scope)

(* A record with nanosec renamed where section 4.3 renames it. *)
Renamed(rec) ==
    [rec EXCEPT !.fields =
        [j \in 1..Len(rec.fields) |->
            IF rec.name \in {"builtin_interfaces/msg/Time", "builtin_interfaces/msg/Duration"}
               /\ rec.fields[j] = "nanosec"
            THEN "nsec"
            ELSE rec.fields[j]]]

(* The names of the records parse_ros2idl returned and of their fields. *)
EmittedRecords ==
    [k \in 1..Len(parsed.message_defs) |->
        [name |-> parsed.message_defs[k].name,
         fields |-> [j \in 1..Len(parsed.message_defs[k].definitions) |->
                        parsed.message_defs[k].definitions[j].name]]]

(* C18: parse_ros2idl emits exactly one record per struct, union and enum and
   one per module that directly holds constants (with those constants only),
   none for a typedef, a module's constants record before the records of its
   other children, in declaration order, depth first. *)
C18_RecordsEmitted ==
    Exported =>
        /\ parsed.pc = "returned"
        /\ EmittedRecords = [k \in 1..Len(ExpectedRecords(parsed.tree, << >>)) |->
                                Renamed(ExpectedRecords(parsed.tree, << >>)[k])]

(* C19: parse_ros2idl renames the field nanosec to nsec in the records
   builtin_interfaces/msg/Time and builtin_interfaces/msg/Duration and in no
   other record; every other field of every record keeps its declared name. *)
C19_NanosecRenamed ==
    Exported =>
        \A k \in 1..Len(ExpectedRecords(parsed.tree, << >>)) :
            /\ \E m \in 1..Len(parsed.message_defs) :
                   EmittedRecords[m].name = ExpectedRecords(parsed.tree, << >>)[k].name
            /\ \A m \in 1..Len(parsed.message_defs) :
                   EmittedRecords[m].name = ExpectedRecords(parsed.tree, << >>)[k].name
                       => EmittedRecords[m].fields
                              = Renamed(ExpectedRecords(parsed.tree, << >>)[k]).fields

(* Where the member loop of the root struct reads its next member header:
   the cursor, aligned to 4 bytes (headers.py, line 26). *)
NextHeader(t) == call[t].st.off + _padding(call[t].st.off, 4)

(* The member loop of the root struct is about to read a member header. *)
ExpectHeader(t) ==
    /\ call[t].pc = "loop"
    /\ root_info.uses_member_header
    /\ ~struct_finished(root_info, call[t].st)

(* C20: the parameter-list loop is done as soon as the cursor is at or beyond
   the end of the body that the delimiter header declares: for every buffer,
   it reads no member header located at or beyond that end. *)
C20_NoHeaderBeyondDeclaredEnd ==
    (ExpectHeader(1) /\ call[1].st.end # -1) => NextHeader(1) < call[1].st.end

(* The end of the body that the delimiter header of the root declares: the
   offset just after the header (8) plus the length it holds. *)
DeclaredEnd(view) == 8 + read_delimiter_header(view, 4, ExpectedOrder(view)).val

(* C21: after the sentinel of a parameter-list aggregate the cursor is exactly
   the end of the body that the aggregate's delimiter header declares: every
   parameter-list message of the writer, read to its sentinel, leaves the
   cursor of the root at the offset after the delimiter header plus its length. *)
C21_CursorAtDeclaredEnd ==
    \A v \in Values[definitions.id], k \in KindsOf(definitions.framing) :
        (definitions.framing = "pl" /\ Message(v, k).ok /\ Finished(1)
             /\ call[1].view = Message(v, k).buf)
            => (call[1].result.status = "returned"
                    /\ call[1].result.off = DeclaredEnd(call[1].view))

(* The typedefs on the chain of a written type, in chain order, the type being
   looked up from the scope; a typedef met again ends the chain. *)
RECURSIVE ChainTypedefs(_, _, _)
ChainTypedefs(t, scope, visited) ==
    IF DeclaredAt(t.path, scope) = {} \/ Qualified(t.path, scope).path \in visited
    THEN << >>
    ELSE IF build_map(parsed.tree, << >>)[Qualified(t.path, scope).path].kind # "typedef"
    THEN << >>
    ELSE <<build_map(parsed.tree, << >>)[Qualified(t.path, scope).path]>>
         \o ChainTypedefs(build_map(parsed.tree, << >>)[Qualified(t.path, scope).path].type,
                          SubSeq(Qualified(t.path, scope).path, 1,
                                 Len(Qualified(t.path, scope).path) - 1),
                          visited \cup {Qualified(t.path, scope).path})

(* The dimensions section 4.3 gives a field: its own, then those of the
   typedefs of its chain. *)
RECURSIVE DimensionsOf(_)
DimensionsOf(nodes) ==
    IF Len(nodes) = 0 THEN << >>
    ELSE (IF Head(nodes).array_length # -1 THEN <<Head(nodes).array_length>> ELSE << >>)
         \o DimensionsOf(Tail(nodes))

(* The sequence bounds section 4.3 allows for a field: its own when it
   declares one, else those the typedefs of its chain declare, else None. *)
BoundsOf(field, chain) ==
    IF field.is_sequence /\ field.sequence_bound # -1 THEN {field.sequence_bound}
    ELSE IF \E i \in 1..Len(chain) : chain[i].is_sequence /\ chain[i].sequence_bound # -1
    THEN {chain[i].sequence_bound : i \in {j \in 1..Len(chain) : chain[j].is_sequence
                                                                 /\ chain[j].sequence_bound # -1}}
    ELSE {-1}

(* The field of the view combines (dims, sequence, bounds). *)
Combines(f, dims, sequence, bounds) ==
    /\ f.arrayLength = (IF Len(dims) > 0 THEN dims[1] ELSE -1)
    /\ f.isArray = (IF Len(dims) > 0 THEN dims ELSE sequence)
    /\ f.arrayUpperBound \in (IF sequence THEN bounds ELSE {-1})

(* C22: a field whose type is a typedef chain is exported with the attributes
   along the chain combined: the dimensions of the field followed by those of
   the typedefs in chain order, a sequence if the field or a typedef of the
   chain is one, and the bound of a typedef only when the field declares none. *)
C22_ChainAttributesCombined ==
    Exported =>
        \A w \in FieldsIn(parsed.tree, << >>) :
            (Len(ChainTypedefs(w.field.type, w.scope, {})) > 0
                 /\ Len(DimensionsOf(<<w.field>> \o ChainTypedefs(w.field.type, w.scope, {}))) <= 1)
                => \E k \in 1..Len(parsed.message_defs) :
                       /\ parsed.message_defs[k].name = Join(w.scope \o <<w.owner>>, "/")
                       /\ \E j \in 1..Len(parsed.message_defs[k].definitions) :
                              /\ parsed.message_defs[k].definitions[j].name = w.field.name
                              /\ Combines(parsed.message_defs[k].definitions[j],
                                          DimensionsOf(<<w.field>>
                                              \o ChainTypedefs(w.field.type, w.scope, {})),
                                          \E i \in 1..Len(<<w.field>>
                                                  \o ChainTypedefs(w.field.type, w.scope, {})) :
                                              (<<w.field>>
                                                  \o ChainTypedefs(w.field.type, w.scope, {}))[i].is_sequence,
                                          BoundsOf(w.field,
                                                   ChainTypedefs(w.field.type, w.scope, {})))

(* The constants and enumerators of a list of definitions, each with the
   scope _convert_constant is given for it. *)
RECURSIVE ConstantsIn(_, _)
ConstantsIn(defs, scope) ==
    UNION {CASE defs[i].kind = "constant" -> {[scope |-> scope, const |-> defs[i]]}
             [] defs[i].kind = "enum" ->
                    {[scope |-> scope \o <<defs[i].name>>, const |-> defs[i].enumerators[j]] :
                        j \in 1..Len(defs[i].enumerators)}
             [] defs[i].kind = "module" ->
                    ConstantsIn(defs[i].definitions, scope \o <<defs[i].name>>)
             [] OTHER -> {} : i \in 1..Len(defs)}

(* Following the typedefs from the type of a constant of the parsed source. *)
Followed(c) ==
    _resolve_type(_resolve_scoped_type(c.const.type, c.scope,
                                       build_map(parsed.result, << >>)).type,
                  _collect_typedefs(parsed.result, << >>), << >>)

(* No name occurs twice in the sequence. *)
OnceEach(names) ==
    \A i, j \in 1..Len(names) : names[i] = names[j] => i = j

(* Every chain of the parsed source expands each typedef name at most once
   and ends at a type that is no typedef or was expanded already; the
   conversion of a field ends too, with a field or an error. *)
ChainsBroken ==
    parsed.resolved =>
        /\ \A c \in ConstantsIn(parsed.result, << >>) :
               /\ OnceEach(Followed(c).visited)
               /\ \/ ~has_key(_collect_typedefs(parsed.result, << >>), Followed(c).t)
                  \/ is_visited(Followed(c).t.path, Followed(c).visited)
        /\ \A w \in FieldsIn(parsed.result, << >>) :
               _convert_field(w.field, _collect_typedefs(parsed.result, << >>),
                              build_map(parsed.result, << >>), w.scope).ok \in BOOLEAN

(* C23: following a typedef chain terminates for every typedef table, tables
   with self-referencing and mutually referencing typedefs included: every
   call of parse_ros2idl ends, and each typedef name is expanded at most once
   per field and per constant. *)
C23_ChainsTerminate == []ChainsBroken /\ <>Exported

(* parse_ros2idl has returned for the module c of typedef Loop Loop,
   typedef Pong Ping and typedef Ping Pong, with the constant KP of type Ping
   exported with the type the chain was broken at. *)
C23_Witness ==
    /\ parsed.tree = <<ExportPool[14]>>
    /\ parsed.pc = "returned"
    /\ \E c \in ConstantsIn(parsed.result, << >>) :
           /\ c.const.name = "KP"
           /\ Followed(c).visited = <<(<<"c", "Ping">>), <<"c", "Pong">>>>
    /\ parsed.message_defs[1].definitions[2].type = "c/Ping"

(* The first offset o >= start with (o - 4) mod 4 = 0. *)
FirstAligned(start) ==
    CHOOSE o \in start..(start + 3) :
        /\ (o - 4) % 4 = 0
        /\ \A q \in start..(o - 1) : (q - 4) % 4 # 0

(* The two bytes at the offset, as the unsigned number of the byte order. *)
HalfWordAt(buffer, o, order) ==
    IF order = "<" THEN buffer[o + 1] + 256 * buffer[o + 2]
    ELSE 256 * buffer[o + 1] + buffer[o + 2]

(* C24: for a member id in 0..0x3F00, a size in 0..0xFFFF, every flag, start
   offset and byte order, read_member_header at the offset given to
   write_member_header returns that id, size and flag and the offset the
   writer returned, and the header lies at the first offset o >= start with
   (o - 4) mod 4 = 0. *)
C24_MemberHeaderRoundtrip ==
    (parsed.pc = "read" /\ parsed.input.member_id \in 0..16128
         /\ parsed.input.object_size \in 0..65535)
        => /\ parsed.read.ok
           /\ parsed.read.val = <<parsed.input.member_id, parsed.input.object_size,
                                  parsed.input.must_understand, parsed.end>>
           /\ parsed.end = FirstAligned(parsed.input.start) + 4
           /\ HalfWordAt(parsed.buffer, FirstAligned(parsed.input.start),
                         parsed.input.fmt_prefix) % 16384 = parsed.input.member_id

(* The header of member 0x3F00 of size 0xFFFF with the flag set, written
   big-endian at offset 5, has been read back from offset 8 to 12. *)
C24_Witness ==
    /\ parsed.pc = "read"
    /\ parsed.input = [member_id |-> 16128, object_size |-> 65535, must_understand |-> TRUE,
                       start |-> 5, fmt_prefix |-> ">"]
    /\ parsed.read.val = <<16128, 65535, TRUE, 12>>

(* C25: a member whose size is 65536 or more, or whose id does not fit 14
   bits, is written in the extended form (PID 0x3F01, then the 32-bit id and
   the 32-bit size), and reading the header back gives the original id and
   size, not their values modulo 2^14 and 2^16. *)
C25_ExtendedFormWritten ==
    (parsed.pc = "read"
         /\ (parsed.input.object_size >= 65536 \/ parsed.input.member_id >= 16384))
        => /\ parsed.read.ok
           /\ parsed.read.val[1] = parsed.input.member_id
           /\ parsed.read.val[2] = parsed.input.object_size
           /\ HalfWordAt(parsed.buffer, FirstAligned(parsed.input.start),
                         parsed.input.fmt_prefix) % 16384 = EXTENDED_PID

(* The array field of the root of the schemas 12 and 13 (its last field), and
   the entry of the log of reads for the first block of the array: it follows
   the entry of the delimiter header, if any, and those of the fields before. *)
ArrayField == root_info.fields[Len(root_info.fields)]

ArrayEntry(log) ==
    log[Len(root_info.fields) + (IF root_info.uses_delimiter_header THEN 1 ELSE 0)]

(* Where the field before the array ended: after the last read before it, or
   at the start of the message body. *)
BeforeArray(log) ==
    IF Len(root_info.fields) + (IF root_info.uses_delimiter_header THEN 1 ELSE 0) = 1
    THEN 4
    ELSE log[Len(root_info.fields) + (IF root_info.uses_delimiter_header THEN 1 ELSE 0) - 1].off
         + log[Len(root_info.fields)
               + (IF root_info.uses_delimiter_header THEN 1 ELSE 0) - 1].width

(* The array decoded from the bytes at offset o: d1 lists of d2 elements of
   width W, element (i, j) taken from o + W * ((i - 1) * d2 + (j - 1)). *)
RowMajor(array, view, o, t, d1, d2) ==
    /\ Len(array) = d1
    /\ \A i \in 1..d1 :
           /\ Len(array[i]) = d2
           /\ \A j \in 1..d2 :
                  array[i][j] = unpack_primitive(ExpectedOrder(view), t, view,
                                                 o + _primitive_size(t)
                                                        * ((i - 1) * d2 + (j - 1))).val

(* C26: a fixed array is decoded without a length prefix: for the dimensions
   [d1, d2] the reader returns d1 lists of d2 elements taken from the buffer in
   row-major order, the first right after the padding to the element width W
   that follows the field before, and the cursor ends W * d1 * d2 after it;
   an array of strings of dimension [d] is returned as a list of d strings. *)
C26_FixedArrayDecoded ==
    \A v \in Values[definitions.id], k \in KindsOf(definitions.framing) :
        (definitions.framing # "pl" /\ Message(v, k).ok /\ Finished(1)
             /\ call[1].view = Message(v, k).buf)
            => /\ definitions.id \in {7, 12, 13} => call[1].result.status = "returned"
               /\ definitions.id = 7
                      => Len(call[1].result.msg[ArrayField.name]) = ArrayField.array_lengths[1]
               /\ definitions.id \in {12, 13}
                      => /\ ArrayEntry(call[1].result.log).off
                                - ArrayEntry(call[1].result.log).pad
                             = BeforeArray(call[1].result.log)
                         /\ (ArrayEntry(call[1].result.log).off - 4)
                                % _primitive_size(ArrayField.type) = 0
                         /\ ArrayEntry(call[1].result.log).pad
                             < _primitive_size(ArrayField.type)
                         /\ RowMajor(call[1].result.msg[ArrayField.name], call[1].view,
                                     ArrayEntry(call[1].result.log).off, ArrayField.type,
                                     ArrayField.array_lengths[1],
                                     ArrayField.array_lengths[2])
                         /\ call[1].result.off
                             = ArrayEntry(call[1].result.log).off
                               + _primitive_size(ArrayField.type)
                                 * ArrayField.array_lengths[1] * ArrayField.array_lengths[2]

(* The message of struct A { uint8 x; uint16 grid[2][2]; } was read: the array
   starts at offset 6, after one byte of padding, and the cursor ends at 14. *)
C26_Witness ==
    /\ definitions = [id |-> 13, framing |-> "plain"]
    /\ Finished(1)
    /\ call[1].result.status = "returned"
    /\ call[1].result.msg.grid = << <<1, 2>>, <<3, 260>> >>
    /\ ArrayEntry(call[1].result.log).off = 6
    /\ call[1].result.off = 14


(* C27: a call that raises leaves the reader usable: whatever calls this
   reader answered or failed before, a call on a buffer the writer produced
   ends as the call of a freshly constructed reader on that buffer ends, with
   the same map when it returns. *)
FreshReader(view) ==
    LET fresh == DeserializationInfoCache(definitions)
    IN  _read_struct(fresh, fresh[Schemas[definitions.id].root], view, 4,
                     ExpectedOrder(view), << >>)

C27_UsableAfterRaise ==
    (Finished(1) /\ call[1].view \in AllWritten[definitions])
        => /\ SameOutcome(call[1].result, FreshReader(call[1].view))
           /\ cache = DeserializationInfoCache(definitions)

C27_Witness ==
    /\ definitions = [id |-> 1, framing |-> "plain"]
    /\ parsed = Reused(TRUE)
    /\ Finished(1)
    /\ call[1].prior = ">"
    /\ call[1].view \in AllWritten[definitions]
    /\ ExpectedOrder(call[1].view) = "<"
    /\ call[1].result.status = "returned"
    /\ call[1].result.msg = FreshReader(call[1].view).val


(* The types written in the user of X found in a list of definitions: the
   types of the fields of S, of the case and default fields of W, and of T. *)
RECURSIVE NodesOf(_)
NodesOf(defs) ==
    UNION {IF defs[i].kind = "module" THEN NodesOf(defs[i].definitions) ELSE {defs[i]} :
              i \in 1..Len(defs)}

TypesIn(node) ==
    CASE node.kind = "struct" -> {node.fields[j].type : j \in 1..Len(node.fields)}
      [] node.kind = "union" ->
             {node.cases[j].field.type : j \in 1..Len(node.cases)}
             \cup (IF node.default.name = "" THEN {} ELSE {node.default.type})
      [] node.kind = "typedef" -> {node.type}
      [] OTHER -> {}

UserTypes(defs) == UNION {TypesIn(n) : n \in {m \in NodesOf(defs) : m.name \in {"S", "W", "T"}}}

(* What parse_idl returns for a source whose callbacks do not raise. *)
Parsed(source) == resolve_types(module_definitions(source, 1, << >>, EmptyMap).val.node)

(* C28: type-name resolution does not depend on the order of declaration: the
   user of X, declared before the struct, union or typedef X (in the same
   scope, in the same module, in a later block of the module or in the
   enclosing module after the user's module), gets the fully-qualified name
   it gets when X is declared first; a constant expression naming X is
   evaluated only when the constant X is declared before it, and parse_idl
   fails with the unknown-identifier error otherwise. *)
C28_OrderIndependent ==
    \A u, d \in OrderKinds, layout \in Layouts, user_first \in BOOLEAN :
        parsed.source = Ordered(UserOf(u), DeclarationOf(d), layout, user_first) =>
            IF u = "const"
            THEN /\ parsed.pc = "returned" =>
                        /\ d = "const" /\ ~user_first
                        /\ \E n \in NodesOf(parsed.result) : n.name = "K" /\ n.value = 3
                 /\ parsed.pc = "raised" =>
                        /\ d # "const" \/ user_first
                        /\ parsed.err = "ValueError"
            ELSE /\ parsed.pc # "raised"
                 /\ (parsed.pc = "returned" /\ d # "const") =>
                        /\ UserTypes(parsed.result)
                               = {TypeName(IF layout = 1 THEN <<"X">> ELSE <<"a", "X">>)}
                        /\ UserTypes(parsed.result)
                               = UserTypes(Parsed(Ordered(UserOf(u), DeclarationOf(d),
                                                          layout, FALSE)))

(* The field of S in the first block of module a has the type a::X of the
   union declared in the second block. *)
C28_Witness ==
    /\ parsed.source = Ordered(UserOf("struct"), DeclarationOf("union"), 3, TRUE)
    /\ parsed.pc = "returned"
    /\ parsed.result[1].definitions[1].name = "S"
    /\ parsed.result[1].definitions[1].fields[1].type = TypeName(<<"a", "X">>)
    /\ parsed.result[2].definitions[1].kind = "union"


(* The constants and enums of a source in the order they are written, the
   bodies of the modules in place of the modules. *)
RECURSIVE FlatItems(_)
FlatItems(items) ==
    IF Len(items) = 0 THEN << >>
    ELSE (IF Head(items).kind = "module" THEN FlatItems(Head(items).definitions)
          ELSE <<Head(items)>>) \o FlatItems(Tail(items))

(* The enumerators of an enum item that the spelling n names (NAME or Enum::NAME). *)
Enumerators(item, n) ==
    {m \in 1..Len(item.enumerators) :
        n \in {item.enumerators[m].name, item.name \o "::" \o item.enumerators[m].name}}

Declares(item, n) ==
    IF item.kind = "enum" THEN Enumerators(item, n) # {} ELSE item.name = n

(* The value of the name n after the first j declarations: that of the most
   recent one declaring n, whatever module holds it; -1 when there is none or
   its expression names something not declared before it. *)
RECURSIVE LatestValue(_, _, _)
RECURSIVE AtomsValue(_, _, _)
LatestValue(flat, n, j) ==
    IF j = 0 THEN -1
    ELSE IF ~Declares(flat[j], n) THEN LatestValue(flat, n, j - 1)
    ELSE IF flat[j].kind = "enum"
    THEN EnumeratorValue(flat[j].enumerators,
                         CHOOSE m \in Enumerators(flat[j], n) :
                             \A k \in Enumerators(flat[j], n) : k <= m)
    ELSE AtomsValue(flat, j, Len(flat[j].atoms))

AtomsValue(flat, j, a) ==
    LET atom == flat[j].atoms[a]
        value == IF atom.lit THEN atom.val ELSE LatestValue(flat, atom.val, j - 1)
        rest == AtomsValue(flat, j, a - 1)
    IN  IF a = 0 THEN 0
        ELSE IF value = -1 \/ rest = -1 THEN -1
        ELSE rest + value

ExpressionValue(flat, j) == AtomsValue(flat, j, Len(flat[j].atoms))

(* C29: the names of constants and enumerators live in one table for the
   whole source: while parse_idl builds the definitions, every name of the
   table has the value of its most recent declaration, whatever module
   declared it; a name atom of a constant expression takes the value of the
   most recently declared constant or enumerator of that spelling, so a later
   declaration replaces the earlier value for the references after it; and
   parse_idl fails only at an expression naming nothing declared before it. *)
C29_OneFlatTable ==
    parsed.source \in ScopedSources =>
        LET flat == FlatItems(parsed.source)
            built == FlatItems(SubSeq(parsed.source, 1, parsed.i - 1))
            nodes == FlatItems(parsed.result)
        IN  /\ parsed.pc = "transform" =>
                   /\ \A n \in DOMAIN parsed._constants :
                          parsed._constants[n] = LatestValue(built, n, Len(built))
                   /\ \A n \in {"N", "M", "E::N", "E::M", "K", "J", "Q"} :
                          LatestValue(built, n, Len(built)) # -1
                              => n \in DOMAIN parsed._constants
            /\ parsed.pc = "returned" =>
                   \A j \in 1..Len(flat) :
                       flat[j].kind = "const" =>
                           /\ ExpressionValue(flat, j) # -1
                           /\ nodes[j].value = ExpressionValue(flat, j)
            /\ parsed.pc = "raised" =>
                   /\ parsed.err = "ValueError"
                   /\ \E j \in 1..Len(flat) :
                          flat[j].kind = "const" /\ ExpressionValue(flat, j) = -1

(* N = 2 in module a, K = N + 10 in module d, N = 5 in module b, J = N at
   the top level: K is 12 and J is 5. *)
C29_Witness ==
    /\ parsed.source = <<ScopedPool[1], ScopedPool[4], ScopedPool[2], ScopedPool[5]>>
    /\ parsed.pc = "returned"
    /\ parsed.result[2].definitions[1].value = 12
    /\ parsed.result[4].value = 5


Larger(a, b) == IF a < b THEN b ELSE a

(* C30: with a delimiter header and no member headers, the cursor after
   decoding an aggregate is the larger of the position after its last field
   and the declared end of its body: the root struct returns with that
   cursor, bytes of a body beyond the known fields are skipped (the field
   after a longer struct or union body is read behind them), and the cursor
   stays where the fields ended when they took more than the declared
   length. *)
C30_CursorAtLargerEnd ==
    /\ [][(/\ definitions.framing = "delimited"
           /\ call[1].pc = "loop"
           /\ call'[1].pc = "idle"
           /\ call'[1].result.status = "returned")
              => /\ call[1].st.end = DeclaredEnd(call[1].view)
                 /\ call'[1].result.off = Larger(call[1].st.off, call[1].st.end)]_vars
    /\ [](Finished(1) =>
            /\ call[1].view = LongBodyBuffer =>
                   /\ call[1].result.status = "returned"
                   /\ call[1].result.msg = [num |-> 42]
                   /\ call[1].result.off = 16
            /\ call[1].view = ShortBodyBuffer =>
                   /\ call[1].result.status = "returned"
                   /\ call[1].result.msg = [num |-> 42]
                   /\ call[1].result.off = 12
            /\ call[1].view = LongUnionBuffer =>
                   /\ call[1].result.status = "returned"
                   /\ call[1].result.msg = [shape |-> Put(D(0), "a", 9), tail |-> 1]
                   /\ call[1].result.off = 17
            /\ call[1].view = ShortUnionBuffer =>
                   /\ call[1].result.status = "returned"
                   /\ call[1].result.msg = [shape |-> Put(D(0), "a", 9), tail |-> 1]
                   /\ call[1].result.off = 15
            /\ call[1].view = LongElementBuffer =>
                   /\ call[1].result.status = "returned"
                   /\ call[1].result.msg = [inners |-> <<[num |-> 5]>>, inner |-> [num |-> 3]]
                   /\ call[1].result.off = 32)

(* The root struct of LongBodyBuffer returned with the cursor behind the four
   bytes its body has after num. *)
C30_Witness ==
    /\ definitions = [id |-> 1, framing |-> "delimited"]
    /\ Finished(1)
    /\ call[1].view = LongBodyBuffer
    /\ call[1].result.status = "returned"
    /\ call[1].result.off = 16

====
